---- MODULE Spec2Model ----
(***************************************************************************)
(* Model of the Onshape drawing translation pipeline of the part           *)
(* management system: OnshapeDrawingClient (backend/utils/                 *)
(* onshape_drawing.py) and its near-duplicate OnshapeDrawingDownloader     *)
(* (get_data/download_drawing_pdf.py).                                     *)
(*                                                                         *)
(* One client instance is used by one caller thread, which invokes         *)
(* download_pdf (or the poller _poll_translation directly) repeatedly.     *)
(* Every blocking network call is one step; the remote service and the     *)
(* transport answer nondeterministically.  Text is a sequence of           *)
(* one-character strings, so that upper(), startswith(), rstrip() and the  *)
(* regular expression of parse_drawing_url are computed, not assumed.      *)
(*                                                                         *)
(* The second part models the local conversion of an uploaded STEP file    *)
(* to a GLB artifact: convert_step_to_gltf (backend/utils/                 *)
(* step_converter.py) and the routes that use it, get_part_model and       *)
(* upload_part_file (backend/routes/parts.py), served by several workers   *)
(* at once.  Its specification is SpecCache.                               *)
(***************************************************************************)
EXTENDS Integers, Sequences, FiniteSets, TLC

\* ------------------------------------------------------------------ bounds
\* number of invocations the caller makes on the client instance
MaxCalls == 2
\* largest max_attempts the caller passes to _poll_translation directly
MaxAttempts == 2
\* largest number of chunks a download response stream delivers
MaxChunks == 2
\* the service settles a job, or answers anything else than "still active",
\* within this many status requests, or never
MaxSettle == 2

\* number of requests the server handles in one run
MaxRequests == 3
\* number of versions of the source file that get uploaded
MaxVersion == 2
\* /auth/check requests taken, and seconds the clock runs
MaxAuthReqs == 3
MaxTime == 2
\* requests to protected part routes
MaxKeyReqs == 2
\* requests to the part routes that change a part
MaxFlowOps == 4

\* default of the max_attempts parameter, used by download_pdf
DefaultMaxAttempts == 30

\* -------------------------------------------------------------------- text
LowerChars ==
  << "a","b","c","d","e","f","g","h","i","j","k","l","m",
     "n","o","p","q","r","s","t","u","v","w","x","y","z" >>
UpperChars ==
  << "A","B","C","D","E","F","G","H","I","J","K","L","M",
     "N","O","P","Q","R","S","T","U","V","W","X","Y","Z" >>
DigitChars == << "0","1","2","3","4","5","6","7","8","9" >>

Range(f) == { f[i] : i \in DOMAIN f }

\* str.upper() on one character
UpperChar(c) ==
  IF \E i \in 1..26 : LowerChars[i] = c
  THEN UpperChars[CHOOSE i \in 1..26 : LowerChars[i] = c]
  ELSE c

\* str.upper()
Upper(s) == [ i \in 1..Len(s) |-> UpperChar(s[i]) ]

\* the character class [A-Za-z0-9]
IsAlnum(c) == c \in Range(LowerChars) \cup Range(UpperChars) \cup Range(DigitChars)

\* does text s continue with lit at index p
HasPrefixAt(s, p, lit) ==
  /\ p >= 1
  /\ p + Len(lit) - 1 <= Len(s)
  /\ \A i \in 1..Len(lit) : s[p + i - 1] = lit[i]

\* str.startswith
StartsWith(s, lit) == HasPrefixAt(s, 1, lit)

\* str.rstrip("/")
RECURSIVE RStripSlash(_)
RStripSlash(s) ==
  IF Len(s) > 0 /\ s[Len(s)] = "/" THEN RStripSlash(SubSeq(s, 1, Len(s) - 1)) ELSE s

\* length of the longest run of [A-Za-z0-9] that starts at index p
RECURSIVE AlnumRun(_, _)
AlnumRun(s, p) ==
  IF p >= 1 /\ p <= Len(s) /\ IsAlnum(s[p]) THEN 1 + AlnumRun(s, p + 1) ELSE 0

L_http == << "h","t","t","p" >>
L_documents == << "/","d","o","c","u","m","e","n","t","s","/" >>
L_w == << "/","w","/" >>
L_e == << "/","e","/" >>
L_d == << "/","d","/" >>
L_drawings == << "/","a","p","i","/","v","6","/","d","r","a","w","i","n","g","s" >>
L_translations == << "/","t","r","a","n","s","l","a","t","i","o","n","s" >>
L_externaldata ==
  << "/","a","p","i","/","e","x","t","e","r","n","a","l","d","a","t","a","/" >>
L_blobelements ==
  << "/","a","p","i","/","v","6","/","b","l","o","b","e","l","e","m","e","n","t","s" >>

\* ------------------------------------------------------------------ base64
\* the code point of a letter, a digit or ":"
CharCode(c) ==
  IF c = ":" THEN 58
  ELSE IF \E k \in 1..10 : DigitChars[k] = c
       THEN 47 + (CHOOSE k \in 1..10 : DigitChars[k] = c)
  ELSE IF \E k \in 1..26 : UpperChars[k] = c
       THEN 64 + (CHOOSE k \in 1..26 : UpperChars[k] = c)
  ELSE 96 + (CHOOSE k \in 1..26 : LowerChars[k] = c)

\* str.encode(): the bytes of a text of such characters
Encode(s) == [ i \in 1..Len(s) |-> CharCode(s[i]) ]

B64Alphabet == UpperChars \o LowerChars \o DigitChars \o << "+","/" >>

\* the k-th of the four 6-bit digits of a 24-bit number, as a character
B64Digit(n, k) == B64Alphabet[((n \div (64 ^ (4 - k))) % 64) + 1]

\* base64.b64encode(b).decode()
RECURSIVE B64Encode(_)
B64Encode(b) ==
  IF Len(b) = 0 THEN << >>
  ELSE IF Len(b) = 1
  THEN LET n == b[1] * 65536
       IN  << B64Digit(n, 1), B64Digit(n, 2), "=", "=" >>
  ELSE IF Len(b) = 2
  THEN LET n == b[1] * 65536 + b[2] * 256
       IN  << B64Digit(n, 1), B64Digit(n, 2), B64Digit(n, 3), "=" >>
  ELSE LET n == b[1] * 65536 + b[2] * 256 + b[3]
       IN  << B64Digit(n, 1), B64Digit(n, 2), B64Digit(n, 3), B64Digit(n, 4) >>
             \o B64Encode(SubSeq(b, 4, Len(b)))

L_Basic == << "B","a","s","i","c"," " >>

\* _build_auth_header (inlined in the downloader's __init__)
BuildAuthHeader(access_key, secret_key) ==
  L_Basic \o B64Encode(Encode(access_key \o << ":" >> \o secret_key))

\* the self.headers dict the constructor builds
Headers(access_key, secret_key) ==
  [ Accept |-> "application/json", ContentType |-> "application/json",
    Authorization |-> BuildAuthHeader(access_key, secret_key) ]

\* ------------------------------------------------------ parse_drawing_url
NoMatch == [ ok |-> FALSE, document |-> << >>, workspace |-> << >>, element |-> << >> ]

\* the pattern /documents/(alnum+)/w/(alnum+)/e/(alnum+) anchored at index p
MatchAt(s, p) ==
  LET a  == p + Len(L_documents)
      n1 == AlnumRun(s, a)
      b  == a + n1
      n2 == AlnumRun(s, b + Len(L_w))
      c  == b + Len(L_w) + n2
      n3 == AlnumRun(s, c + Len(L_e))
  IN  IF /\ HasPrefixAt(s, p, L_documents)
         /\ n1 >= 1
         /\ HasPrefixAt(s, b, L_w)
         /\ n2 >= 1
         /\ HasPrefixAt(s, c, L_e)
         /\ n3 >= 1
      THEN [ ok |-> TRUE,
             document  |-> SubSeq(s, a, b - 1),
             workspace |-> SubSeq(s, b + Len(L_w), c - 1),
             element   |-> SubSeq(s, c + Len(L_e), c + Len(L_e) + n3 - 1) ]
      ELSE NoMatch

\* variant of parse_drawing_url: re.match, the pattern anchored at the start
parse_drawing_url_AnchoredAtStart(s) ==
  MatchAt(s, 1)

\* re.search: the leftmost position at which the pattern matches
parse_drawing_url(s) ==
  LET hits == { p \in 1..Len(s) : MatchAt(s, p).ok }
  IN  IF hits = {} THEN NoMatch
      ELSE MatchAt(s, CHOOSE p \in hits : \A q \in hits : p <= q)

\* ------------------------------------------------------------ JSON values
\* a JSON member: a text, a list, null, or a key that is absent
Str(s)  == [ t |-> "str",  v |-> s ]
List(l) == [ t |-> "list", v |-> l ]
Null    == [ t |-> "null", v |-> << >> ]
Missing == [ t |-> "missing", v |-> << >> ]

\* dict.get(key): None when the key is absent
Get(x) == IF x.t = "missing" THEN Null ELSE x

\* dict.get(key, default)
GetDefault(x, d) == IF x.t = "missing" THEN d ELSE x

\* truth value of a Python object: None, "" and [] are false
Truthy(x) == x.t \in {"str", "list"} /\ Len(x.v) > 0

\* Python's  a or b
Or(a, b) == IF Truthy(a) THEN a ELSE b

\* x.upper(): defined on text only, AttributeError on None
UpperOf(x) ==
  IF x.t = "str" THEN [ ok |-> TRUE, v |-> Upper(x.v) ] ELSE [ ok |-> FALSE, v |-> << >> ]

W_DONE     == << "D","O","N","E" >>
W_FAILED   == << "F","A","I","L","E","D" >>
W_CANCELED == << "C","A","N","C","E","L","E","D" >>

\* ------------------------------------------------------------------ inputs
Impls == { "client", "downloader" }

Host == << "h","t","t","p","s",":","/","/","o" >>
\* base_url arguments of the constructor
BaseUrlArgs == { Host, Host \o << "/" >> }

\* access_key and secret_key arguments of the constructor
Credentials == { [ access_key |-> << "a","k" >>, secret_key |-> << "s","k" >> ] }

D1 == << "d","1" >>
W1 == << "w","1" >>
E1 == << "e","1" >>
\* drawing_url arguments of download_pdf
DrawingUrls ==
  { Host \o L_documents \o D1 \o L_w \o W1 \o L_e \o E1,
    Host \o L_documents \o D1 \o L_w \o W1 \o L_e \o E1 \o << "/","x" >>,
    Host \o L_documents \o D1 \o L_w \o W1 }

HrefRel == << "/","t","/","7" >>
HrefAbs == Host \o << "/","t","/","8" >>
\* answers of the service to the submit POST
SubmitResponses ==
  { [ http |-> h, href |-> Missing ] : h \in { "error", "neterr" } }
  \cup { [ http |-> "ok", href |-> x ] :
           x \in { Missing, Null, Str(<< >>), Str(HrefRel), Str(HrefAbs) } }

\* requestState values with which the service reports a finished job
DoneStates == { Str(W_DONE), Str(<< "D","o","n","e" >>) }

\* requestState values the service answers
RequestStates ==
  DoneStates \cup
  { Missing, Null, Str(<< >>),
    Str(W_FAILED), Str(<< "f","a","i","l","e","d" >>),
    Str(W_CANCELED), Str(<< "C","a","n","c","e","l","e","d" >>),
    Str(<< "A","C","T","I","V","E" >>),
    Str(<< "C","A","N","C","E","L","L","E","D" >>),
    Str(<< "D","O","N","E"," " >>) }

B1 == << "b","1" >>
B2 == << "b","2" >>
R1 == << "r","1" >>
R2 == << "r","2" >>
ExternalIdLists == { Missing, Null, List(<< >>), List(<< B1 >>), List(<< B2, B1 >>) }
ElementIdLists  == { Missing, Null, List(<< >>), List(<< R1 >>), List(<< R2, R1 >>) }

\* answers of the service to a status GET
StatusResponses ==
  { [ http |-> h, requestState |-> Missing,
      resultExternalDataIds |-> Missing, resultElementIds |-> Missing ] :
      h \in { "error", "neterr" } }
  \cup { [ http |-> "ok", requestState |-> s,
           resultExternalDataIds |-> x, resultElementIds |-> e ] :
           s \in DoneStates, x \in ExternalIdLists, e \in ElementIdLists }
  \cup { [ http |-> "ok", requestState |-> s,
           resultExternalDataIds |-> x, resultElementIds |-> x ] :
           s \in RequestStates \ DoneStates, x \in { Missing, List(<< R1 >>) } }

\* the bytes of a response body are opaque to the client: the p-th byte of
\* the body served to the n-th invocation is the number 10 * n + p
Byte(n, p) == 10 * n + p

\* what response.iter_content may deliver next when len bytes of the body
\* have been delivered: an empty chunk (a keep-alive), one byte or two bytes
Chunks(n, len) ==
  { << >>, << Byte(n, len + 1) >>, << Byte(n, len + 1), Byte(n, len + 2) >> }

\* ------------------------------------------------------------ URL building
\* download_pdf: translation_url
TranslationUrl(base, ref) ==
  base \o L_drawings \o L_d \o ref.document \o L_w \o ref.workspace
       \o L_e \o ref.element \o L_translations

\* download_pdf: download_url of the external-data endpoint
ExternalDataUrl(base, id) == base \o L_externaldata \o id

\* variant of BlobElementUrl: the drawing's own element id is used
BlobElementUrl_OwnElement(base, ref, id) ==
  base \o L_blobelements \o L_d \o ref.document \o L_w \o ref.workspace \o L_e \o ref.element

\* _download_blob_element: blob_url
BlobElementUrl(base, ref, id) ==
  base \o L_blobelements \o L_d \o ref.document \o L_w \o ref.workspace \o L_e \o id

\* variant of ExtractStatusUrl: a response without a status link is accepted
\* and the link taken to be empty
ExtractStatusUrl_NoCheck(base, info) ==
  LET href == Or(Get(info.href), Str(<< >>))
  IN  [ ok |-> TRUE,
        url |-> IF StartsWith(href.v, L_http) THEN href.v ELSE base \o href.v ]

\* variant of ExtractStatusUrl: every href is joined to the base URL
ExtractStatusUrl_AlwaysJoins(base, info) ==
  LET href == Get(info.href)
  IN  IF ~Truthy(href) THEN [ ok |-> FALSE, url |-> << >> ]
      ELSE [ ok |-> TRUE, url |-> base \o href.v ]

\* _extract_status_url (inlined in the downloader's download_pdf)
ExtractStatusUrl(base, info) ==
  LET href == Get(info.href)
  IN  IF ~Truthy(href) THEN [ ok |-> FALSE, url |-> << >> ]
      ELSE [ ok |-> TRUE,
             url |-> IF StartsWith(href.v, L_http) THEN href.v ELSE base \o href.v ]

\* ----------------------------------------------------------- poll one step
\* the state the loop body of _poll_translation computes from a payload
PollState(i, payload) ==
  IF i = "client"
  THEN UpperOf(Or(Get(payload.requestState), Str(<< >>)))
  ELSE UpperOf(GetDefault(payload.requestState, Str(<< >>)))

\* variant of PollStep: the payload is returned without looking at its state
PollStep_NoStateCheck(i, r) ==
  IF r.http # "ok" THEN "request_error" ELSE "return"

\* variant of PollStep: a failed status request counts as one more attempt
PollStep_ErrorIsNonTerminal(i, r) ==
  IF r.http # "ok" THEN "sleep"
  ELSE LET st == PollState(i, r)
       IN  IF ~st.ok THEN "attribute_error"
           ELSE IF st.v = W_DONE THEN "return"
           ELSE IF st.v \in { W_FAILED, W_CANCELED } THEN "raise_state"
           ELSE "sleep"

\* what one iteration of the loop of _poll_translation does with a response
PollStep(i, r) ==
  IF r.http # "ok" THEN "request_error"
  ELSE LET st == PollState(i, r)
       IN  IF ~st.ok THEN "attribute_error"
           ELSE IF st.v = W_DONE THEN "return"
           ELSE IF st.v \in { W_FAILED, W_CANCELED } THEN "raise_state"
           ELSE "sleep"

\* variant of Resolve: the element list is looked at first
Resolve_ElementFirst(i, payload) ==
  LET external_ids == Or(Get(payload.resultExternalDataIds), List(<< >>))
      element_ids  == Or(Get(payload.resultElementIds), List(<< >>))
  IN  IF Truthy(element_ids) THEN [ variant |-> "element", id |-> element_ids.v[1] ]
      ELSE IF Truthy(external_ids)
      THEN [ variant |-> "external", id |-> external_ids.v[1] ]
      ELSE [ variant |-> "none", id |-> << >> ]

\* download_pdf: the result variant picked from the final status; the client
\* tests external_ids, then element_ids; the downloader nests the tests
Resolve(i, payload) ==
  LET external_ids == Or(Get(payload.resultExternalDataIds), List(<< >>))
      element_ids  == Or(Get(payload.resultElementIds), List(<< >>))
      external     == [ variant |-> "external", id |-> external_ids.v[1] ]
      element      == [ variant |-> "element", id |-> element_ids.v[1] ]
      none         == [ variant |-> "none", id |-> << >> ]
  IN  IF i = "client"
      THEN IF Truthy(external_ids) THEN external
           ELSE IF Truthy(element_ids) THEN element
           ELSE none
      ELSE IF ~Truthy(external_ids)
           THEN IF Truthy(element_ids) THEN element ELSE none
           ELSE external

\* ------------------------------------------------------------------- state
VARIABLES
  impl,       \* which of the two client classes the instance is
  base_url,   \* self.base_url
  headers,    \* self.headers
  calls,      \* number of invocations the caller has started
  fs,         \* the destination path: parent directory, file, file content,
              \* and whether the download that wrote the file ran to its end
  call        \* the running (or last finished) invocation: locals and position

VARIABLES
  cascadio,     \* can  import cascadio  succeed in this deployment
  part_file,    \* is part.file set in the database
  disk,         \* the upload directory of the part: source file and artifact
  req,          \* per worker: the request it handles, its locals and position
  nreq,         \* number of requests started
  conversions   \* number of calls of cascadio.step_to_glb made so far

VARIABLES
  parsing       \* the last direct call of parse_drawing_url: argument, result

VARIABLES
  server,       \* how the app is served: threads of one process, or processes
  timestamps,   \* per process: the module's _auth_check_timestamps dict
  now,          \* time.time(), in whole seconds
  areq,         \* per worker: the /auth/check request it handles
  answers,      \* the answers given to /auth/check requests, in order
  kreq,         \* the last request to a protected part route and its outcome
  parts_db      \* how often handlers have read and changed part records

VARIABLES
  part,         \* the database row of one part: category, type, status
  flow          \* the last request to a part route: what it found and did

pipeline_vars == << impl, base_url, headers, calls, fs, call >>
cache_vars == << cascadio, part_file, disk, req, nreq, conversions >>
parse_vars == << parsing >>
auth_vars == << server, timestamps, now, areq, answers, kreq, parts_db >>
flow_vars == << part, flow >>
vars == << impl, base_url, headers, calls, fs, call,
           cascadio, part_file, disk, req, nreq, conversions,
           parsing,
           server, timestamps, now, areq, answers, kreq, parts_db,
           part, flow >>

\* what the actions of one component leave alone
outside_pipeline == << cache_vars, parse_vars, auth_vars, flow_vars >>
outside_cache == << pipeline_vars, parse_vars, auth_vars, flow_vars >>
outside_parse == << pipeline_vars, cache_vars, auth_vars, flow_vars >>
outside_auth == << pipeline_vars, cache_vars, parse_vars, flow_vars >>
outside_flow == << pipeline_vars, cache_vars, parse_vars, auth_vars >>

NoError   == [ type |-> "none", msg |-> "none", state |-> << >> ]
NoPayload == [ http |-> "none", requestState |-> Missing,
               resultExternalDataIds |-> Missing, resultElementIds |-> Missing ]
NoLast    == [ http |-> "none", requestState |-> Missing ]
NoChoice  == [ variant |-> "unset", id |-> << >> ]
NoInfo    == [ http |-> "none", href |-> Missing ]

\* the locals of an invocation before its first statement
NewCall(op) ==
  [ op |-> op, pc |-> "CREATED", ref |-> NoMatch, translation_info |-> NoInfo,
    max_attempts |-> 0, attempt |-> 0, status_url |-> << >>,
    reqs |-> << >>, hdrs |-> << >>, sleeps |-> 0, status_payload |-> NoPayload,
    last |-> NoLast, nonterminal |-> 0,
    final_status |-> NoPayload, choice |-> NoChoice, download_url |-> << >>,
    before |-> "none", chunks |-> 0, body |-> << >>, outcome |-> "none", error |-> NoError ]

\* positions at which an invocation has ended
EndStates == { "DOWNLOADED", "RETURNED", "FAILED", "CANCELED", "TIMED_OUT", "ERROR" }

\* an invocation ends by raising
Raise(c, pc, type, msg) ==
  [ c EXCEPT !.pc = pc, !.outcome = "raise",
             !.error = [ type |-> type, msg |-> msg, state |-> << >> ] ]

\* _poll_translation: raise RuntimeError(f"Translation ended with state {state}.")
RaiseState(c, st) ==
  [ c EXCEPT !.pc = IF st = W_FAILED THEN "FAILED" ELSE "CANCELED",
             !.outcome = "raise",
             !.error = [ type |-> "RuntimeError", msg |-> "ended with state",
                         state |-> st ] ]

\* variant of RequestHeaders: the downloads send their own Accept header only
RequestHeaders_DownloadsBare(kind) ==
  IF kind = "file"
  THEN [ Accept |-> "application/pdf", ContentType |-> "none", Authorization |-> << >> ]
  ELSE IF kind = "blob"
  THEN [ Accept |-> "application/octet-stream", ContentType |-> "none",
         Authorization |-> << >> ]
  ELSE headers

\* the headers of one outbound request: self.headers, and for the two
\* downloads {**self.headers, "Accept": ...}
RequestHeaders(kind) ==
  IF kind = "file" THEN [ headers EXCEPT !.Accept = "application/pdf" ]
  ELSE IF kind = "blob" THEN [ headers EXCEPT !.Accept = "application/octet-stream" ]
  ELSE headers

\* one outbound request appended to the invocation's request log, and its
\* headers to the log of headers
Sent(c, kind, url) ==
  [ c EXCEPT !.reqs = Append(@, [ kind |-> kind, url |-> url ]),
             !.hdrs = Append(@, RequestHeaders(kind)) ]

\* the error requests raises for a response that is not a success
RequestError(http) == IF http = "error" THEN "HTTPError" ELSE "ConnectionError"

\* is text s the word w in some letter case
IsWord(x, w) ==
  /\ x.t = "str"
  /\ Len(x.v) = Len(w)
  /\ \A i \in 1..Len(w) :
       \/ x.v[i] = w[i]
       \/ \E k \in 1..26 : UpperChars[k] = w[i] /\ LowerChars[k] = x.v[i]

\* a status response that reports a state other than DONE, FAILED, CANCELED
NonTerminal(r) ==
  /\ r.http = "ok"
  /\ ~IsWord(r.requestState, W_DONE)
  /\ ~IsWord(r.requestState, W_FAILED)
  /\ ~IsWord(r.requestState, W_CANCELED)

\* ------------------------------------------------- conversion: its values
\* the workers (threads or processes) that serve requests at the same time
Workers == { 1, 2 }

\* get_upload_path(part_id) and the name the part's file was uploaded under
UploadDir == << "u","/","1" >>
FileName == << "p",".","s","t","e","p" >>
L_glb == << ".","g","l","b" >>

\* index of the last "." of a name, 0 when there is none
RECURSIVE LastDot(_, _)
LastDot(name, i) ==
  IF i = 0 THEN 0 ELSE IF name[i] = "." THEN i ELSE LastDot(name, i - 1)

\* Path(name).stem: the name without its last suffix
StemOf(name) ==
  LET d == LastDot(name, Len(name))
  IN  IF d <= 1 THEN name ELSE SubSeq(name, 1, d - 1)

\* Path(dir) / name
JoinPath(dir, name) == dir \o << "/" >> \o name

\* variant of RouteGlbPath: the suffix of the stored name is kept
RouteGlbPath_KeepsSuffix == JoinPath(UploadDir, FileName \o L_glb)

\* get_part_model: glb_path = upload_dir / f"{filename_stem}.glb"
RouteGlbPath == JoinPath(UploadDir, StemOf(FileName) \o L_glb)

\* convert_step_to_gltf: glb_path = output_path / f"{output_filename}.glb"
ConverterGlbPath(output_dir, output_filename) ==
  JoinPath(output_dir, output_filename \o L_glb)

\* the artifact file: absent, being written (created or truncated by the
\* worker "owner", which has not finished), broken (the routine that
\* wrote it raised half way) or complete; ver is the version of the source
\* it is converted from
NoArtifact == [ state |-> "absent", ver |-> 0, owner |-> 0 ]

\* the dict convert_step_to_gltf returns
NoResult == [ success |-> FALSE, error |-> "unset", gltf_path |-> << >> ]
Failure(error) == [ success |-> FALSE, error |-> error, gltf_path |-> << >> ]

\* what send_file delivered
NoSent == [ state |-> "none", ver |-> 0 ]

\* the locals of a request before its first statement; ops is the log of
\* the file-system and import operations it has made
NewReq(op) ==
  [ op |-> op, pc |-> "START", seen_glb |-> "unset", seen_step |-> "unset",
    ops |-> << >>, conv_step |-> "unset", invoked |-> 0, returned |-> FALSE,
    verify |-> "unset",
    result |-> NoResult, path |-> << >>, status |-> 0, error |-> "none",
    sent |-> NoSent ]

IdleReq == [ NewReq("none") EXCEPT !.pc = "IDLE" ]

\* the pipeline is not used
PipelineIdle ==
  /\ impl = "client"
  /\ base_url = Host
  /\ headers = Headers(<< "a","k" >>, << "s","k" >>)
  /\ calls = 0
  /\ fs = [ dir |-> FALSE, exists |-> FALSE, data |-> << >>, whole |-> FALSE ]
  /\ call = [ NewCall("none") EXCEPT !.pc = "IDLE" ]

\* the server is not used
CacheIdle ==
  /\ cascadio = FALSE
  /\ part_file = FALSE
  /\ disk = [ dir |-> FALSE, step |-> 0, glb |-> NoArtifact ]
  /\ req = [ w \in Workers |-> IdleReq ]
  /\ nreq = 0
  /\ conversions = 0

\* ------------------------------------------- parse_drawing_url: its values
\* drawing_url arguments of a direct call, by the parts they are made of:
\* what precedes the reference (nothing, the host, or the host and the
\* start of another reference), the three ids (an empty id is a segment
\* whose id is missing), which segments there are and in what order, and
\* what follows
Pres == { << >>, Host, Host \o L_documents \o << "z","z","/","w" >> }
Posts == { << >>, << "/","x" >>, << "?","a","=","1" >> }
DocIds == { D1, << "A","b","9" >>, << >>, << "d","-","1" >> }
WsIds == { W1, << "0" >>, << >> }
ElIds == { E1, << "Z","z" >>, << >>, << "e","_" >> }
Shapes == { "full", "no_document", "no_workspace", "no_element", "swapped" }
ParseParts ==
  [ pre : Pres, doc : DocIds, ws : WsIds, el : ElIds, shape : Shapes, post : Posts ]

NoParts == [ pre |-> << >>, doc |-> << >>, ws |-> << >>, el |-> << >>,
             shape |-> "none", post |-> << >> ]

\* the text of the URL
BuildUrl(p) ==
  p.pre
  \o ( CASE p.shape = "full" -> L_documents \o p.doc \o L_w \o p.ws \o L_e \o p.el
         [] p.shape = "no_document" -> L_w \o p.ws \o L_e \o p.el
         [] p.shape = "no_workspace" -> L_documents \o p.doc \o L_e \o p.el
         [] p.shape = "no_element" -> L_documents \o p.doc \o L_w \o p.ws
         [] p.shape = "swapped" -> L_w \o p.ws \o L_documents \o p.doc \o L_e \o p.el
         [] OTHER -> << >> )
  \o p.post

NoParse == [ n |-> 0, parts |-> NoParts, drawing_url |-> << >>, result |-> NoMatch,
             outcome |-> "none", error |-> "none" ]

\* parse_drawing_url is not called directly
ParseIdle == parsing = NoParse

\* ------------------------------------------------- authentication: its values
\* request.remote_addr of the clients
IPs == { "10.0.0.1", "10.0.0.2" }

\* waitress serves with threads of one process, gunicorn -w N with processes
Servers == { "threads", "processes" }

\* the process worker w runs in
Proc(w) == IF server = "threads" THEN 1 ELSE w

\* check_auth: if time_since_last_request < 2.0
MinDelay == 2

\* current_app.config["SECRET_KEY"], and another key
SecretKey == << "k","1" >>
WrongKey == << "k","2" >>

\* a key as a header or a query parameter carries it
KeyVals == { Missing, Str(<< >>), Str(SecretKey), Str(WrongKey) }

\* request.get_json(silent=True): None, {}, an object with or without the
\* member api_key, or the array ["api_key"]
NoBody == [ t |-> "none", api_key |-> Missing ]
EmptyObject == [ t |-> "empty_object", api_key |-> Missing ]
Object(k) == [ t |-> "object", api_key |-> k ]
Array == [ t |-> "array", api_key |-> Missing ]
Bodies ==
  { NoBody, EmptyObject, Array }
  \cup { Object(k) : k \in KeyVals \cup { Null, List(<< SecretKey >>) } }

\* variant of get_api_key_from_request: the body is read for every method
get_api_key_from_request_AnyMethod(r) ==
  IF Truthy(Get(r.header)) THEN r.header
  ELSE IF Truthy(Get(r.query)) THEN r.query
  ELSE IF r.is_json /\ r.body.t = "object" /\ r.body.api_key.t # "missing"
  THEN r.body.api_key
  ELSE Null

\* _get_api_key_from_request: the `in` test holds for the array too, the
\* subscript then raises TypeError, which is caught and passed
get_api_key_from_request(r) ==
  IF Truthy(Get(r.header)) THEN r.header
  ELSE IF Truthy(Get(r.query)) THEN r.query
  ELSE IF /\ r.is_json
          /\ r.method \in { "POST", "PUT" }
          /\ r.body.t = "object"
          /\ r.body.api_key.t # "missing"
  THEN r.body.api_key
  ELSE Null

\* require_secret_key, up to the call of the handler
require_secret_key(r) ==
  LET provided_key == get_api_key_from_request(r)
  IN  IF ~Truthy(provided_key)
      THEN [ run |-> FALSE, status |-> 401, error |-> "API key required" ]
      ELSE IF provided_key # Str(SecretKey)
      THEN [ run |-> FALSE, status |-> 401, error |-> "Invalid API key" ]
      ELSE [ run |-> TRUE, status |-> 0, error |-> "none" ]

\* the protected part routes: method, and what the handler does to records
KeyRoutes ==
  { [ name |-> "get_part", method |-> "GET", reads |-> 1, writes |-> 0 ],
    [ name |-> "update_part", method |-> "PUT", reads |-> 1, writes |-> 1 ],
    [ name |-> "create_part", method |-> "POST", reads |-> 0, writes |-> 1 ],
    [ name |-> "delete_part", method |-> "DELETE", reads |-> 1, writes |-> 1 ] }

NoRequest == [ method |-> "none", header |-> Missing, query |-> Missing,
               is_json |-> FALSE, body |-> NoBody ]
NoKeyReq == [ n |-> 0, route |-> "none", request |-> NoRequest,
              db_before |-> [ reads |-> 0, writes |-> 0 ], status |-> 0,
              error |-> "none", ran |-> FALSE ]

\* an IP the dict has no entry for
Absent == -1

\* the locals of check_auth
IdleAuth == [ pc |-> "IDLE", client_ip |-> "none", current_time |-> 0 ]

\* the keys of a dict
Tracked(m) == { ip \in IPs : m[ip] # Absent }

\* the server takes no request
AuthIdle ==
  /\ server = "threads"
  /\ timestamps = [ p \in Workers |-> [ ip \in IPs |-> Absent ] ]
  /\ now = 0
  /\ areq = [ w \in Workers |-> IdleAuth ]
  /\ answers = << >>
  /\ kreq = NoKeyReq
  /\ parts_db = [ reads |-> 0, writes |-> 0 ]

\* ------------------------------------------------- workflow: its values
\* Python's None, and a key that the JSON body does not have
None == "<None>"
NotGiven == "<no key>"

\* the workflow categories, and the values a request body may give for
\* category and type: nothing checks them before they are stored
Categories == { "review", "cnc", "hand", "completed" }
CategoryArgs == Categories \cup { "archive" }
TypeArgs == { None, "", "cnc", "hand", "laser" }

STATUS_IN_PROGRESS == "In Progress"

\* Python's truth value of a string or None
TruthyText(v) == v \notin { None, "", NotGiven }

\* the row of the part followed: none before create_part has made it
NoPart == [ exists |-> FALSE, category |-> "", type |-> None, status |-> "",
            assigned |-> None ]

\* no request was made yet
NoFlow == [ n |-> 0, op |-> "none", code |-> 0, from |-> "", to |-> "",
            type |-> None, prev_op |-> "none", prev_code |-> 0, prev_from |-> "" ]

\* validate_category_transition: "valid" where it returns True, else the
\* ValidationError it raises
valid_transitions(current_category) ==
  CASE current_category = "review" -> { "cnc", "hand", "completed" }
    [] current_category = "cnc" -> { "completed" }
    [] current_category = "hand" -> { "completed" }
    [] current_category = "completed" -> { "cnc", "hand" }
    [] OTHER -> { }

validate_category_transition(current_category, new_category, part_type) ==
  IF current_category \notin Categories THEN "Invalid current category"
  ELSE IF new_category \notin valid_transitions(current_category)
  THEN "Cannot transition"
  ELSE IF new_category \in { "cnc", "hand" } /\ TruthyText(part_type)
          /\ new_category # part_type
  THEN "Part type cannot be moved"
  ELSE "valid"

\* the part routes take no request
FlowIdle ==
  /\ part = NoPart
  /\ flow = NoFlow

\* OnshapeDrawingClient(...) / OnshapeDrawingDownloader(...)
Init ==
  /\ impl \in Impls
  /\ base_url \in { RStripSlash(b) : b \in BaseUrlArgs }
  /\ headers \in { Headers(c.access_key, c.secret_key) : c \in Credentials }
  /\ calls = 0
  /\ fs \in { [ dir |-> d, exists |-> FALSE, data |-> << >>, whole |-> FALSE ] : d \in BOOLEAN }
  /\ call = [ NewCall("none") EXCEPT !.pc = "IDLE" ]
  /\ CacheIdle
  /\ ParseIdle
  /\ AuthIdle
  /\ FlowIdle

CanCall == calls < MaxCalls /\ call.pc \in EndStates \cup { "IDLE" }

\* download_pdf up to the submit request: parse_drawing_url, translation_url
CallDownloadPdf ==
  /\ CanCall
  /\ \E u \in DrawingUrls :
       LET ref == parse_drawing_url(u)
           c   == [ NewCall("download_pdf") EXCEPT !.ref = ref ]
       IN  call' = IF ref.ok THEN c ELSE Raise(c, "ERROR", "ValueError", "bad drawing url")
  /\ calls' = calls + 1
  /\ UNCHANGED << impl, base_url, headers, fs >>
  /\ UNCHANGED outside_pipeline

\* variant of Submit: a submit request that failed is sent again
Submit_Resubmits ==
  /\ call.pc = "CREATED"
  /\ call.op = "download_pdf"
  /\ \E r \in SubmitResponses :
       LET c  == [ Sent(call, "submit", TranslationUrl(base_url, call.ref))
                   EXCEPT !.translation_info = r ]
           su == ExtractStatusUrl(base_url, r)
       IN  call' =
             IF r.http # "ok" THEN c
             ELSE IF ~su.ok THEN Raise(c, "ERROR", "RuntimeError", "missing status link")
             ELSE [ c EXCEPT !.pc = "POLLING", !.status_url = su.url,
                             !.max_attempts = DefaultMaxAttempts ]
  /\ UNCHANGED << impl, base_url, headers, calls, fs >>
  /\ UNCHANGED outside_pipeline

\* download_pdf: requests.post, raise_for_status, _extract_status_url
Submit ==
  /\ call.pc = "CREATED"
  /\ call.op = "download_pdf"
  /\ \E r \in SubmitResponses :
       LET c  == [ Sent(call, "submit", TranslationUrl(base_url, call.ref))
                   EXCEPT !.translation_info = r ]
           su == ExtractStatusUrl(base_url, r)
       IN  call' =
             IF r.http # "ok" THEN Raise(c, "ERROR", RequestError(r.http), "submit")
             ELSE IF ~su.ok THEN Raise(c, "ERROR", "RuntimeError", "missing status link")
             ELSE [ c EXCEPT !.pc = "POLLING", !.status_url = su.url,
                             !.max_attempts = DefaultMaxAttempts ]
  /\ UNCHANGED << impl, base_url, headers, calls, fs >>
  /\ UNCHANGED outside_pipeline

\* a direct call of _poll_translation(status_url, max_attempts)
CallPoll ==
  /\ CanCall
  /\ \E m \in 0..MaxAttempts :
       call' = [ NewCall("poll") EXCEPT !.pc = "POLLING", !.status_url = HrefAbs,
                                        !.max_attempts = m ]
  /\ calls' = calls + 1
  /\ UNCHANGED << impl, base_url, headers, fs >>
  /\ UNCHANGED outside_pipeline

\* the answer of a service that is still working on the job
StillActive ==
  [ http |-> "ok", requestState |-> Str(<< "A","C","T","I","V","E" >>),
    resultExternalDataIds |-> Missing, resultElementIds |-> Missing ]

\* the answers the service may give to the status request that follows n
\* earlier ones: any answer to the first MaxSettle requests, afterwards
\* "still active"
Answers(n) == IF n < MaxSettle THEN StatusResponses ELSE { StillActive }

\* _poll_translation: one iteration of the loop up to its sleep
PollAttempt ==
  /\ call.pc = "POLLING"
  /\ call.attempt < call.max_attempts
  /\ \E r \in Answers(call.attempt) :
       LET c == [ Sent(call, "status", call.status_url) EXCEPT
                    !.attempt = @ + 1,
                    !.status_payload = r,
                    !.last = [ http |-> r.http, requestState |-> r.requestState ],
                    !.nonterminal = IF NonTerminal(r) THEN @ + 1 ELSE @ ]
           step == PollStep(impl, r)
           st   == PollState(impl, r).v
       IN  call' =
             CASE step = "request_error" ->
                    Raise(c, "ERROR", RequestError(r.http), "status")
               [] step = "attribute_error" ->
                    Raise(c, "ERROR", "AttributeError", "upper")
               [] step = "return" ->
                    IF call.op = "poll"
                    THEN [ c EXCEPT !.pc = "RETURNED", !.outcome = "return",
                                    !.final_status = r ]
                    ELSE [ c EXCEPT !.pc = "DONE", !.final_status = r ]
               [] step = "raise_state" -> RaiseState(c, st)
               [] OTHER -> [ c EXCEPT !.pc = "SLEEPING" ]
  /\ UNCHANGED << impl, base_url, headers, calls, fs >>
  /\ UNCHANGED outside_pipeline

\* variant of PollSleep: a job that failed or was canceled is polled again
\* after the delay
PollSleep_AfterFailure ==
  /\ call.pc \in { "SLEEPING", "FAILED", "CANCELED" }
  /\ call' = [ call EXCEPT !.pc = "POLLING", !.sleeps = @ + 1,
                           !.outcome = "none", !.error = NoError ]
  /\ UNCHANGED << impl, base_url, headers, calls, fs >>
  /\ UNCHANGED outside_pipeline

\* _poll_translation: time.sleep(delay_seconds) returns
PollSleep ==
  /\ call.pc = "SLEEPING"
  /\ call' = [ call EXCEPT !.pc = "POLLING", !.sleeps = @ + 1 ]
  /\ UNCHANGED << impl, base_url, headers, calls, fs >>
  /\ UNCHANGED outside_pipeline

\* _poll_translation: the loop ran out of attempts
PollExhausted ==
  /\ call.pc = "POLLING"
  /\ call.attempt >= call.max_attempts
  /\ call' = Raise(call, "TIMED_OUT", "TimeoutError", "polling exceeded maximum attempts")
  /\ UNCHANGED << impl, base_url, headers, calls, fs >>
  /\ UNCHANGED outside_pipeline

\* variant of ResolveResult: a finished job without results is a silent no-op,
\* the destination path is returned
ResolveResult_SilentNoResult ==
  /\ call.pc = "DONE"
  /\ LET ch == Resolve(impl, call.final_status)
     IN  call' =
           CASE ch.variant = "external" ->
                  [ call EXCEPT !.pc = "RESOLVED", !.choice = ch,
                                !.download_url = ExternalDataUrl(base_url, ch.id) ]
             [] ch.variant = "element" ->
                  [ call EXCEPT !.pc = "RESOLVED", !.choice = ch,
                                !.download_url = BlobElementUrl(base_url, call.ref, ch.id) ]
             [] OTHER ->
                  [ call EXCEPT !.choice = ch, !.pc = "DOWNLOADED", !.outcome = "return" ]
  /\ UNCHANGED << impl, base_url, headers, calls, fs >>
  /\ UNCHANGED outside_pipeline

\* download_pdf: the statements between the poll and the download call
ResolveResult ==
  /\ call.pc = "DONE"
  /\ LET ch == Resolve(impl, call.final_status)
     IN  call' =
           CASE ch.variant = "external" ->
                  [ call EXCEPT !.pc = "RESOLVED", !.choice = ch,
                                !.download_url = ExternalDataUrl(base_url, ch.id) ]
             [] ch.variant = "element" ->
                  [ call EXCEPT !.pc = "RESOLVED", !.choice = ch,
                                !.download_url = BlobElementUrl(base_url, call.ref, ch.id) ]
             [] OTHER ->
                  Raise([ call EXCEPT !.choice = ch ], "ERROR", "RuntimeError",
                        "finished without downloadable results")
  /\ UNCHANGED << impl, base_url, headers, calls, fs >>
  /\ UNCHANGED outside_pipeline

\* what the destination path held when the download opened it
Before(f) ==
  IF ~f.dir THEN "no_directory"
  ELSE IF ~f.exists THEN "no_file"
  ELSE IF Len(f.data) = 0 THEN "empty_file"
  ELSE IF f.whole THEN "downloaded_file"
  ELSE "broken_file"

\* variant of DownloadRequest: the destination is opened for appending
DownloadRequest_Appends ==
  /\ call.pc = "RESOLVED"
  /\ LET c == [ Sent(call, IF call.choice.variant = "external" THEN "file" ELSE "blob",
                      call.download_url)
                EXCEPT !.final_status = NoPayload, !.status_payload = NoPayload ]
     IN  /\ call' = [ c EXCEPT !.pc = "STREAMING", !.before = Before(fs) ]
         /\ fs' = [ fs EXCEPT !.dir = TRUE, !.exists = TRUE, !.whole = FALSE ]
  /\ UNCHANGED << impl, base_url, headers, calls >>
  /\ UNCHANGED outside_pipeline

\* variant of DownloadRequest: the destination is prepared and opened before
\* the answer of the download request is looked at
DownloadRequest_OpensFirst ==
  /\ call.pc = "RESOLVED"
  /\ \E http \in { "ok", "error", "neterr" } :
       LET c == [ Sent(call, IF call.choice.variant = "external" THEN "file" ELSE "blob",
                       call.download_url)
                  EXCEPT !.final_status = NoPayload, !.status_payload = NoPayload ]
       IN  IF http # "ok"
           THEN /\ call' = Raise(c, "ERROR", RequestError(http), "download")
                /\ fs' = [ dir |-> TRUE, exists |-> TRUE, data |-> << >>, whole |-> FALSE ]
           ELSE /\ call' = [ c EXCEPT !.pc = "STREAMING", !.before = Before(fs) ]
                /\ fs' = [ dir |-> TRUE, exists |-> TRUE, data |-> << >>, whole |-> FALSE ]
  /\ UNCHANGED << impl, base_url, headers, calls >>
  /\ UNCHANGED outside_pipeline

\* _download_file / _download_blob_element: requests.get, raise_for_status,
\* parent.mkdir(parents=True, exist_ok=True), open("wb").  download_pdf does
\* not read the status payload again once it has made the download call, so
\* the payload is forgotten here; call.last keeps the state it reported.
DownloadRequest ==
  /\ call.pc = "RESOLVED"
  /\ \E http \in { "ok", "error", "neterr" }, io \in { "ok", "mkdir_fails", "open_fails" } :
       LET c == [ Sent(call, IF call.choice.variant = "external" THEN "file" ELSE "blob",
                       call.download_url)
                  EXCEPT !.final_status = NoPayload, !.status_payload = NoPayload ]
       IN  IF http # "ok"
           THEN /\ call' = Raise(c, "ERROR", RequestError(http), "download")
                /\ fs' = fs
           ELSE IF io = "mkdir_fails"
           THEN /\ ~fs.dir
                /\ call' = Raise(c, "ERROR", "OSError", "mkdir")
                /\ fs' = fs
           ELSE IF io = "open_fails"
           THEN /\ call' = Raise(c, "ERROR", "OSError", "open")
                /\ fs' = [ fs EXCEPT !.dir = TRUE ]
           ELSE /\ call' = [ c EXCEPT !.pc = "STREAMING", !.before = Before(fs) ]
                /\ fs' = [ dir |-> TRUE, exists |-> TRUE, data |-> << >>, whole |-> FALSE ]
  /\ UNCHANGED << impl, base_url, headers, calls >>
  /\ UNCHANGED outside_pipeline

\* variant of DownloadChunk: of every chunk only the first byte is written
DownloadChunk_FirstByteOnly ==
  /\ call.pc = "STREAMING"
  /\ call.chunks < MaxChunks
  /\ \E ch \in Chunks(calls, Len(call.body)) :
       /\ call' = [ call EXCEPT !.chunks = @ + 1, !.body = @ \o ch ]
       /\ fs' = IF Len(ch) > 0 THEN [ fs EXCEPT !.data = @ \o << ch[1] >> ] ELSE fs
  /\ UNCHANGED << impl, base_url, headers, calls >>
  /\ UNCHANGED outside_pipeline

\* one round of  for chunk in response.iter_content(...): if chunk: write(chunk)
DownloadChunk ==
  /\ call.pc = "STREAMING"
  /\ call.chunks < MaxChunks
  /\ \E ch \in Chunks(calls, Len(call.body)) :
       /\ call' = [ call EXCEPT !.chunks = @ + 1, !.body = @ \o ch ]
       /\ fs' = IF Len(ch) > 0 THEN [ fs EXCEPT !.data = @ \o ch ] ELSE fs
  /\ UNCHANGED << impl, base_url, headers, calls >>
  /\ UNCHANGED outside_pipeline

\* variant of DownloadBreak: the stream error is swallowed and the path returned
DownloadBreak_Swallowed ==
  /\ call.pc = "STREAMING"
  /\ call' = [ call EXCEPT !.pc = "ERROR", !.outcome = "return" ]
  /\ UNCHANGED << impl, base_url, headers, calls, fs >>
  /\ UNCHANGED outside_pipeline

\* variant of DownloadBreak: the truncated file is removed before the error
\* is passed on
DownloadBreak_RollsBack ==
  /\ call.pc = "STREAMING"
  /\ call' = Raise(call, "ERROR", "ConnectionError", "stream")
  /\ fs' = [ fs EXCEPT !.exists = FALSE, !.data = << >> ]
  /\ UNCHANGED << impl, base_url, headers, calls >>
  /\ UNCHANGED outside_pipeline

\* the response stream breaks inside iter_content: the exception leaves the
\* with block, which closes the file and keeps what was written
DownloadBreak ==
  /\ call.pc = "STREAMING"
  /\ call' = Raise(call, "ERROR", "ConnectionError", "stream")
  /\ UNCHANGED << impl, base_url, headers, calls, fs >>
  /\ UNCHANGED outside_pipeline

\* variant of DownloadEnd: after the external-data download the code falls
\* through to the element branch instead of returning
DownloadEnd_FallThrough ==
  /\ call.pc = "STREAMING"
  /\ call' = IF call.choice.variant = "external"
             THEN [ call EXCEPT !.pc = "RESOLVED", !.chunks = 0, !.body = << >>,
                                !.choice = [ variant |-> "element", id |-> R1 ],
                                !.download_url = BlobElementUrl(base_url, call.ref, R1) ]
             ELSE [ call EXCEPT !.pc = "DOWNLOADED", !.outcome = "return" ]
  /\ UNCHANGED << impl, base_url, headers, calls, fs >>
  /\ UNCHANGED outside_pipeline

\* the response stream ends: the file is closed, output_path.resolve() returned
DownloadEnd ==
  /\ call.pc = "STREAMING"
  /\ call' = [ call EXCEPT !.pc = "DOWNLOADED", !.outcome = "return" ]
  /\ fs' = [ fs EXCEPT !.whole = TRUE ]
  /\ UNCHANGED << impl, base_url, headers, calls >>
  /\ UNCHANGED outside_pipeline

Next ==
  \/ CallDownloadPdf
  \/ Submit
  \/ CallPoll
  \/ PollAttempt
  \/ PollSleep
  \/ PollExhausted
  \/ ResolveResult
  \/ DownloadRequest
  \/ DownloadChunk
  \/ DownloadBreak
  \/ DownloadEnd

Spec == Init /\ [][Next]_vars

\* ====================================================== local conversion
\* a deployment: the dependency is installed or not, the part names a file
\* or not (part.file is also set by the create and update routes), and the
\* upload directory holds the source, an artifact made from it, both or
\* neither
InitCache ==
  /\ FlowIdle
  /\ PipelineIdle
  /\ ParseIdle
  /\ AuthIdle
  /\ cascadio \in BOOLEAN
  /\ part_file \in BOOLEAN
  /\ disk \in { [ dir |-> (v > 0 \/ g),
                   step |-> v,
                   glb |-> IF g THEN [ state |-> "complete", ver |-> 1, owner |-> 0 ]
                           ELSE NoArtifact ] :
                 v \in 0..1, g \in BOOLEAN }
  /\ req = [ w \in Workers |-> IdleReq ]
  /\ nreq = 0
  /\ conversions = 0

CanServe(w) == nreq < MaxRequests /\ req[w].pc \in { "IDLE", "END" }

\* a request ends with an HTTP status
Respond(r, status, error) == [ r EXCEPT !.pc = "END", !.status = status, !.error = error ]

\* one operation appended to the request's log
Did(r, what) == [ r EXCEPT !.ops = Append(@, what) ]

\* what the caller of convert_step_to_gltf does with the dict it returns:
\* get_part_model answers 500 or goes on to send the file, upload_part_file
\* puts it into its 201 answer, a direct caller just has it
Converted(r, result) ==
  LET c == [ r EXCEPT !.result = result ]
  IN  CASE r.op = "model" ->
             IF ~result.success THEN Respond(c, 500, "Model conversion failed")
             ELSE [ c EXCEPT !.pc = "SEND", !.path = result.gltf_path ]
        [] r.op = "upload" -> Respond(c, 201, "none")
        [] OTHER -> [ c EXCEPT !.pc = "END" ]

\* get_part_model up to the test of the artifact: the part.file check
get_part_model(w) ==
  /\ CanServe(w)
  /\ req' = [ req EXCEPT ![w] =
               IF ~part_file
               THEN Respond(NewReq("model"), 404, "No file associated with this part")
               ELSE [ NewReq("model") EXCEPT !.pc = "CHECK_GLB" ] ]
  /\ nreq' = nreq + 1
  /\ UNCHANGED << cascadio, part_file, disk, conversions >>
  /\ UNCHANGED outside_cache

\* variant of CheckGlb: the artifact is converted again whether it is there
\* or not
CheckGlb_AlwaysConvert(w) ==
  /\ req[w].pc = "CHECK_GLB"
  /\ LET present == disk.glb.state # "absent"
         r == [ Did(req[w], "glb_exists") EXCEPT
                  !.seen_glb = IF present THEN "present" ELSE "absent" ]
     IN  req' = [ req EXCEPT ![w] = [ r EXCEPT !.pc = "CHECK_STEP" ] ]
  /\ UNCHANGED << cascadio, part_file, disk, nreq, conversions >>
  /\ UNCHANGED outside_cache

\* variant of CheckGlb: an artifact older than the source is converted again
CheckGlb_Freshness(w) ==
  /\ req[w].pc = "CHECK_GLB"
  /\ LET present == disk.glb.state # "absent"
         r == [ Did(req[w], "glb_exists") EXCEPT
                  !.seen_glb = IF present THEN "present" ELSE "absent" ]
     IN  req' = [ req EXCEPT ![w] =
                  IF present /\ disk.glb.ver = disk.step
                  THEN [ r EXCEPT !.pc = "SEND", !.path = RouteGlbPath ]
                  ELSE [ r EXCEPT !.pc = "CHECK_STEP" ] ]
  /\ UNCHANGED << cascadio, part_file, disk, nreq, conversions >>
  /\ UNCHANGED outside_cache

\* get_part_model: if not glb_path.exists()
CheckGlb(w) ==
  /\ req[w].pc = "CHECK_GLB"
  /\ LET present == disk.glb.state # "absent"
         r == [ Did(req[w], "glb_exists") EXCEPT
                  !.seen_glb = IF present THEN "present" ELSE "absent" ]
     IN  req' = [ req EXCEPT ![w] =
                  IF present
                  THEN [ r EXCEPT !.pc = "SEND", !.path = RouteGlbPath ]
                  ELSE [ r EXCEPT !.pc = "CHECK_STEP" ] ]
  /\ UNCHANGED << cascadio, part_file, disk, nreq, conversions >>
  /\ UNCHANGED outside_cache

\* variant of CheckStep: the route leaves the test of the source to the
\* converter
CheckStep_LeftToConverter(w) ==
  /\ req[w].pc = "CHECK_STEP"
  /\ req' = [ req EXCEPT ![w] = [ req[w] EXCEPT !.pc = "IMPORT" ] ]
  /\ UNCHANGED << cascadio, part_file, disk, nreq, conversions >>
  /\ UNCHANGED outside_cache

\* get_part_model: if not step_path.exists(), then the call of the converter
CheckStep(w) ==
  /\ req[w].pc = "CHECK_STEP"
  /\ LET present == disk.step > 0
         r == [ Did(req[w], "step_exists") EXCEPT
                  !.seen_step = IF present THEN "present" ELSE "absent" ]
     IN  req' = [ req EXCEPT ![w] =
                  IF ~present THEN Respond(r, 404, "Original file not found")
                  ELSE [ r EXCEPT !.pc = "IMPORT" ] ]
  /\ UNCHANGED << cascadio, part_file, disk, nreq, conversions >>
  /\ UNCHANGED outside_cache

\* the multipart form of an upload request
UploadForms == { "no_file_field", "empty_filename", "bad_extension", "step_file" }

\* upload_part_file up to the call of the converter: the checks of the
\* form, upload_dir.mkdir, file.save, part.file = filename, commit
upload_part_file(w) ==
  /\ CanServe(w)
  /\ \E form \in UploadForms :
       IF form = "step_file"
       THEN /\ disk.step < MaxVersion
            /\ disk' = [ disk EXCEPT !.dir = TRUE, !.step = @ + 1 ]
            /\ part_file' = TRUE
            /\ req' = [ req EXCEPT ![w] =
                         [ Did(Did(NewReq("upload"), "mkdir"), "save") EXCEPT
                             !.pc = "IMPORT" ] ]
       ELSE /\ req' = [ req EXCEPT ![w] =
                         Respond(NewReq("upload"), 400,
                                 CASE form = "no_file_field" -> "No file provided"
                                   [] form = "empty_filename" -> "No file selected"
                                   [] OTHER -> "Invalid file type") ]
            /\ UNCHANGED << disk, part_file >>
  /\ nreq' = nreq + 1
  /\ UNCHANGED << cascadio, conversions >>
  /\ UNCHANGED outside_cache

\* a caller other than the two routes calls convert_step_to_gltf
CallConvert(w) ==
  /\ CanServe(w)
  /\ req' = [ req EXCEPT ![w] = [ NewReq("convert") EXCEPT !.pc = "IMPORT" ] ]
  /\ nreq' = nreq + 1
  /\ UNCHANGED << cascadio, part_file, disk, conversions >>
  /\ UNCHANGED outside_cache

\* variant of ConvImport: a missing dependency is not noticed at the import
ConvImport_NoFailFast(w) ==
  /\ req[w].pc = "IMPORT"
  /\ req' = [ req EXCEPT ![w] = [ Did(req[w], "import") EXCEPT !.pc = "CONV_CHECK" ] ]
  /\ UNCHANGED << cascadio, part_file, disk, nreq, conversions >>
  /\ UNCHANGED outside_cache

\* convert_step_to_gltf: try: import cascadio  except ImportError
ConvImport(w) ==
  /\ req[w].pc = "IMPORT"
  /\ LET r == Did(req[w], "import")
     IN  req' = [ req EXCEPT ![w] =
                  IF ~cascadio THEN Converted(r, Failure("cascadio library not available"))
                  ELSE [ r EXCEPT !.pc = "CONV_CHECK" ] ]
  /\ UNCHANGED << cascadio, part_file, disk, nreq, conversions >>
  /\ UNCHANGED outside_cache

\* convert_step_to_gltf: if not step_path.exists(), output_path.mkdir
ConvCheck(w) ==
  /\ req[w].pc = "CONV_CHECK"
  /\ LET r == [ Did(req[w], "step_exists") EXCEPT
                  !.conv_step = IF disk.step > 0 THEN "present" ELSE "absent" ]
     IN  IF disk.step = 0
         THEN /\ req' = [ req EXCEPT ![w] = Converted(r, Failure("STEP file not found")) ]
              /\ disk' = disk
         ELSE /\ req' = [ req EXCEPT ![w] = [ Did(r, "mkdir") EXCEPT !.pc = "CONVERT" ] ]
              /\ disk' = [ disk EXCEPT !.dir = TRUE ]
  /\ UNCHANGED << cascadio, part_file, nreq, conversions >>
  /\ UNCHANGED outside_cache

\* variant of ConvStart: an exception of the conversion routine leaves
\* convert_step_to_gltf as an exception, no dict is returned
ConvStart_Escapes(w) ==
  /\ req[w].pc = "CONVERT"
  /\ \E outcome \in { "raises", "returns_without_output", "opens_output" } :
       LET r == [ Did(req[w], "step_to_glb") EXCEPT !.invoked = @ + 1 ]
       IN  CASE outcome = "raises" ->
                  /\ req' = [ req EXCEPT ![w] =
                               IF r.op = "convert" THEN [ r EXCEPT !.pc = "END" ]
                               ELSE Respond(r, 500, "Failed") ]
                  /\ disk' = disk
             [] outcome = "returns_without_output" ->
                  /\ req' = [ req EXCEPT ![w] =
                               [ r EXCEPT !.pc = "CONV_VERIFY", !.returned = TRUE ] ]
                  /\ disk' = disk
             [] OTHER ->
                  /\ req' = [ req EXCEPT ![w] = [ r EXCEPT !.pc = "WRITING" ] ]
                  /\ disk' = [ disk EXCEPT !.glb = [ state |-> "writing",
                                                     ver |-> disk.step, owner |-> w ] ]
  /\ conversions' = conversions + 1
  /\ UNCHANGED << cascadio, part_file, nreq >>
  /\ UNCHANGED outside_cache

\* convert_step_to_gltf: cascadio.step_to_glb is called.  The routine is
\* native code outside the repository: it may raise before it touches the
\* output, return without having made an output, or create (truncate) the
\* output file and start to write it
ConvStart(w) ==
  /\ req[w].pc = "CONVERT"
  /\ \E outcome \in { "raises", "returns_without_output", "opens_output" } :
       LET r == [ Did(req[w], "step_to_glb") EXCEPT !.invoked = @ + 1 ]
       IN  CASE outcome = "raises" ->
                  /\ req' = [ req EXCEPT ![w] = Converted(r, Failure("Conversion failed")) ]
                  /\ disk' = disk
             [] outcome = "returns_without_output" ->
                  /\ req' = [ req EXCEPT ![w] =
                               [ r EXCEPT !.pc = "CONV_VERIFY", !.returned = TRUE ] ]
                  /\ disk' = disk
             [] OTHER ->
                  /\ req' = [ req EXCEPT ![w] = [ r EXCEPT !.pc = "WRITING" ] ]
                  /\ disk' = [ disk EXCEPT !.glb = [ state |-> "writing",
                                                     ver |-> disk.step, owner |-> w ] ]
  /\ conversions' = conversions + 1
  /\ UNCHANGED << cascadio, part_file, nreq >>
  /\ UNCHANGED outside_cache

\* cascadio.step_to_glb ends: it has written the whole output and returns,
\* or it raises half way.  The file is whole when the worker that truncated
\* it last has written it to the end.
ConvWrite(w) ==
  /\ req[w].pc = "WRITING"
  /\ \E outcome \in { "returns", "raises" } :
       /\ req' = [ req EXCEPT ![w] =
                    IF outcome = "returns"
                    THEN [ req[w] EXCEPT !.pc = "CONV_VERIFY", !.returned = TRUE ]
                    ELSE Converted(req[w], Failure("Conversion failed")) ]
       /\ disk' = IF disk.glb.owner # w THEN disk
                  ELSE [ disk EXCEPT !.glb.owner = 0,
                                     !.glb.state = IF outcome = "returns" THEN "complete"
                                                   ELSE "broken" ]
  /\ UNCHANGED << cascadio, part_file, nreq, conversions >>
  /\ UNCHANGED outside_cache

\* variant of ConvVerify: a routine that returned is taken to have succeeded
ConvVerify_TrustsReturn(w) ==
  /\ req[w].pc = "CONV_VERIFY"
  /\ LET present == disk.glb.state # "absent"
         r == [ Did(req[w], "glb_exists") EXCEPT
                  !.verify = IF present THEN "present" ELSE "absent" ]
     IN  req' = [ req EXCEPT ![w] =
                  Converted(r, [ success |-> TRUE, error |-> "none",
                                 gltf_path |-> ConverterGlbPath(UploadDir, StemOf(FileName)) ]) ]
  /\ UNCHANGED << cascadio, part_file, disk, nreq, conversions >>
  /\ UNCHANGED outside_cache

\* convert_step_to_gltf: if not glb_path.exists(), and the two returns
ConvVerify(w) ==
  /\ req[w].pc = "CONV_VERIFY"
  /\ LET present == disk.glb.state # "absent"
         r == [ Did(req[w], "glb_exists") EXCEPT
                  !.verify = IF present THEN "present" ELSE "absent" ]
     IN  req' = [ req EXCEPT ![w] =
                  IF ~present THEN Converted(r, Failure("GLB file was not created"))
                  ELSE Converted(r, [ success |-> TRUE, error |-> "none",
                                      gltf_path |-> ConverterGlbPath(UploadDir,
                                                                     StemOf(FileName)) ]) ]
  /\ UNCHANGED << cascadio, part_file, disk, nreq, conversions >>
  /\ UNCHANGED outside_cache

\* get_part_model: send_file(str(glb_path)) reads what the file holds now
SendFile(w) ==
  /\ req[w].pc = "SEND"
  /\ LET r == Did(req[w], "send_file")
     IN  req' = [ req EXCEPT ![w] =
                  IF disk.glb.state = "absent"
                  THEN Respond(r, 500, "Failed to retrieve model")
                  ELSE [ Respond(r, 200, "none") EXCEPT
                           !.sent = [ state |-> disk.glb.state, ver |-> disk.glb.ver ] ] ]
  /\ UNCHANGED << cascadio, part_file, disk, nreq, conversions >>
  /\ UNCHANGED outside_cache

NextCache ==
  \E w \in Workers :
    \/ get_part_model(w)
    \/ CheckGlb(w)
    \/ CheckStep(w)
    \/ upload_part_file(w)
    \/ CallConvert(w)
    \/ ConvImport(w)
    \/ ConvCheck(w)
    \/ ConvStart(w)
    \/ ConvWrite(w)
    \/ ConvVerify(w)
    \/ SendFile(w)

SpecCache == InitCache /\ [][NextCache]_vars

\* ============================================================== properties
\* the kinds of the requests an invocation has sent, as a set of log positions
ReqAt(kind) == { i \in 1..Len(call.reqs) : call.reqs[i].kind = kind }
CountReq(kind) == Cardinality(ReqAt(kind))
DownloadKinds == { "file", "blob" }
Downloads == ReqAt("file") \cup ReqAt("blob")

\* the most recent status response reports the word w in some letter case
LastIs(w) == call.last.http = "ok" /\ IsWord(call.last.requestState, w)

\* C1: within one download_pdf the requests go out in the order submit, then
\* status requests, then one download: the submit is the first request and
\* the only one at that place, a status request is sent only with the status
\* link of an accepted submit response, and a download request is the last
\* request, follows a status request and is sent only after a status
\* response with state DONE.
C1_StageOrder ==
  call.op = "download_pdf" =>
    \A i \in 1..Len(call.reqs) :
      LET k == call.reqs[i].kind
      IN  /\ (i = 1) <=> (k = "submit")
          /\ k = "status" =>
               /\ Len(call.status_url) > 0
               /\ call.reqs[i].url = call.status_url
               /\ call.reqs[i - 1].kind \in { "submit", "status" }
          /\ k \in DownloadKinds =>
               /\ i = Len(call.reqs)
               /\ i >= 3
               /\ call.reqs[i - 1].kind = "status"
               /\ LastIs(W_DONE)

C1_Witness ==
  /\ call.op = "download_pdf"
  /\ call.pc = "DOWNLOADED"
  /\ CountReq("status") >= 2
  /\ Downloads # {}

\* C2: download_pdf returns normally only from the end of the download
\* stage of a job whose polled state was DONE, with the file holding the
\* whole streamed body; every other ended invocation ended by raising.
C2_ReturnOnlyAfterDownload ==
  (call.op = "download_pdf" /\ call.pc \in EndStates) =>
    IF call.outcome = "return"
    THEN /\ call.pc = "DOWNLOADED"
         /\ LastIs(W_DONE)
         /\ Cardinality(Downloads) = 1
         /\ fs.exists
         /\ fs.data = call.body
    ELSE /\ call.outcome = "raise"
         /\ call.error.type # "none"
         /\ call.pc # "DOWNLOADED"

C2_Witness ==
  /\ call.op = "download_pdf"
  /\ call.outcome = "return"
  /\ Len(fs.data) > 0

\* the terminal states of the pipeline state machine
TerminalStates == { "DOWNLOADED", "FAILED", "CANCELED", "TIMED_OUT" }

\* C3: once an invocation is in DOWNLOADED, FAILED, CANCELED or TIMED_OUT it
\* sends no further request, writes nothing further to the destination file
\* and never changes state: the only step out of such a state is the caller
\* starting another invocation.
C3_TerminalAbsorbing ==
  [][ (call.pc \in TerminalStates /\ calls' = calls) => (call' = call /\ fs' = fs) ]_vars

C3_Witness ==
  /\ call.pc \in TerminalStates
  /\ call.op = "download_pdf"
  /\ calls < MaxCalls

\* the poll loop of the invocation has been entered
PollEntered == call.op = "poll" \/ Len(call.status_url) > 0

\* positions of an invocation whose poll has returned a payload
AfterPoll == { "RETURNED", "DONE", "RESOLVED", "STREAMING", "DOWNLOADED", "ERROR" }

\* The poller is deterministic, so its run on a sequence of status responses
\* is fixed by the prefix it has consumed.  An invocation that has ended
\* after j < max_attempts responses, all of them non-terminal, is the run on
\* every sequence that continues this prefix, in particular on those with
\* DONE, FAILED or CANCELED at position j + 1 <= max_attempts.
StoppedEarly ==
  /\ PollEntered
  /\ call.pc \in EndStates
  /\ call.nonterminal = call.attempt
  /\ call.attempt < call.max_attempts

\* C4: when the k-th status response is the first DONE and all earlier ones
\* are non-terminal (k <= max_attempts), the poller has sent exactly k status
\* requests and returns the k-th payload; no status request is sent after a
\* response that was not non-terminal; the poller does not stop before the
\* k-th request.
C4_ReturnsAtFirstDone ==
  /\ (LastIs(W_DONE) /\ call.nonterminal = call.attempt - 1) =>
       /\ CountReq("status") = call.attempt
       /\ call.attempt <= call.max_attempts
       /\ call.pc \in AfterPoll
       /\ call.op = "poll" => (call.pc = "RETURNED" /\ call.outcome = "return")
       /\ call.pc \in { "RETURNED", "DONE", "RESOLVED" } =>
            /\ call.final_status = call.status_payload
            /\ call.final_status.requestState = call.last.requestState
  /\ call.nonterminal >= call.attempt - 1
  /\ ~StoppedEarly

\* C5: when the first max_attempts >= 1 status responses are all non-terminal
\* the poller sends exactly max_attempts status requests and then fails with
\* the polling-timeout error; it never sends more than max_attempts.
C5_TimeoutAfterMaxAttempts ==
  /\ PollEntered => CountReq("status") <= call.max_attempts
  /\ ( /\ PollEntered
       /\ call.max_attempts >= 1
       /\ call.pc \in EndStates
       /\ call.nonterminal = call.attempt ) =>
         /\ call.attempt = call.max_attempts
         /\ CountReq("status") = call.max_attempts
         /\ call.pc = "TIMED_OUT"
         /\ call.outcome = "raise"
         /\ call.error.type = "TimeoutError"

\* C6: when the k-th status response is FAILED or CANCELED and all earlier
\* ones are non-terminal (k <= max_attempts), the poller fails right after
\* exactly k status requests, without a sleep after that response, with an
\* error that names the state and is not the polling-timeout error; it does
\* not stop before the k-th request.
C6_FailsAtTerminalState ==
  /\ \A w \in { W_FAILED, W_CANCELED } :
       (LastIs(w) /\ call.nonterminal = call.attempt - 1) =>
         /\ call.pc = (IF w = W_FAILED THEN "FAILED" ELSE "CANCELED")
         /\ call.outcome = "raise"
         /\ call.error.state = w
         /\ call.error.type \notin { "none", "TimeoutError" }
         /\ CountReq("status") = call.attempt
         /\ call.sleeps = call.attempt - 1
  /\ ~StoppedEarly

\* C7: a status response is treated as DONE, FAILED or CANCELED exactly when
\* its requestState is that word in some letter case; after every other
\* requestState (another word, the empty text, null, or no field at all) the
\* poller sleeps and goes on, or times out; it does not fail on it.
C7_CaseInsensitiveStates ==
  call.last.http = "ok" =>
    /\ LastIs(W_DONE) <=> \/ call.pc \in AfterPoll \ { "ERROR" }
                          \/ (call.pc = "ERROR" /\ call.choice # NoChoice)
    /\ LastIs(W_FAILED) <=> call.pc = "FAILED"
    /\ LastIs(W_CANCELED) <=> call.pc = "CANCELED"
    /\ NonTerminal(call.last) <=> call.pc \in { "SLEEPING", "POLLING", "TIMED_OUT" }

NonEmptyList(x) == x.t = "list" /\ Len(x.v) >= 1

\* C8: the download request of download_pdf goes to the external-data
\* endpoint with the first entry of resultExternalDataIds whenever that list
\* is non-empty, whatever resultElementIds holds; otherwise it goes to the
\* blob-element endpoint of the drawing's document and workspace with the
\* first entry of resultElementIds, which is then non-empty.
C8_ExternalDataFirst ==
  [][ ( /\ calls' = calls
        /\ Len(call'.reqs) = Len(call.reqs) + 1
        /\ call'.reqs[Len(call'.reqs)].kind \in DownloadKinds ) =>
      LET x == call.final_status.resultExternalDataIds
          e == call.final_status.resultElementIds
          q == call'.reqs[Len(call'.reqs)]
      IN  /\ call.final_status.http = "ok"
          /\ IF NonEmptyList(x)
             THEN q = [ kind |-> "file", url |-> base_url \o L_externaldata \o x.v[1] ]
             ELSE /\ NonEmptyList(e)
                  /\ q = [ kind |-> "blob",
                           url |-> base_url \o L_blobelements
                                     \o L_d \o call.ref.document
                                     \o L_w \o call.ref.workspace
                                     \o L_e \o e.v[1] ] ]_vars

C8_Witness ==
  /\ call.pc = "DOWNLOADED"
  /\ ReqAt("file") # {}
  /\ call.choice = [ variant |-> "external", id |-> B2 ]

\* C9: once download_pdf holds a DONE payload in which both result lists
\* are empty, absent or null, it sends no request, leaves the file system as
\* it is and ends by raising the no-result error.
NoResultPayload(p) ==
  /\ p.http = "ok"
  /\ ~NonEmptyList(p.resultExternalDataIds)
  /\ ~NonEmptyList(p.resultElementIds)

C9_NoResultIsAnError ==
  [][ ( /\ call.op = "download_pdf"
        /\ NoResultPayload(call.final_status)
        /\ calls' = calls ) =>
      ( /\ call'.reqs = call.reqs
        /\ fs' = fs
        /\ call'.pc = "ERROR"
        /\ call'.outcome = "raise"
        /\ call'.error.type = "RuntimeError"
        /\ call'.error.msg = "finished without downloadable results" ) ]_vars

C9_Witness ==
  /\ call.op = "download_pdf"
  /\ call.pc = "ERROR"
  /\ NoResultPayload(call.final_status)
  /\ Downloads = {}
  /\ fs.exists
  /\ Len(fs.data) > 0

\* C10: an invocation sends at most one download request, so never one of
\* each kind, and the request it sends is the one of the variant chosen.
C10_OneVariantOneDownload ==
  /\ Cardinality(Downloads) <= 1
  /\ Downloads # {} =>
       /\ call.choice.variant \in { "external", "element" }
       /\ ReqAt("file") # {} <=> call.choice.variant = "external"
       /\ ReqAt("blob") # {} <=> call.choice.variant = "element"
  /\ call.pc \in { "RESOLVED", "STREAMING", "DOWNLOADED" } =>
       call.choice.variant \in { "external", "element" }

C10_Witness ==
  /\ call.pc = "DOWNLOADED"
  /\ ReqAt("blob") # {}
  /\ call.choice.variant = "element"

\* a JSON member that is a text of at least one character
NonEmptyText(x) == x.t = "str" /\ Len(x.v) >= 1

\* the submit request of the invocation was answered, and the answer is not
\* a success that carries a status link
SubmitFailed ==
  /\ call.translation_info.http # "none"
  /\ \/ call.translation_info.http # "ok"
     \/ ~NonEmptyText(call.translation_info.href)

\* C11: when the submit request of download_pdf is answered with a
\* non-success, or with a success whose status link is absent, null or
\* empty, the invocation has ended by raising an error (for the missing
\* link the one that names it), the submit request is the only request it
\* has sent, and it holds no status URL.
C11_SubmissionFailureStops ==
  (call.op = "download_pdf" /\ SubmitFailed) =>
    /\ call.pc = "ERROR"
    /\ call.outcome = "raise"
    /\ call.error.type \in { "HTTPError", "ConnectionError", "RuntimeError" }
    /\ call.translation_info.http = "ok" =>
         (call.error.type = "RuntimeError" /\ call.error.msg = "missing status link")
    /\ Len(call.reqs) = 1
    /\ call.reqs[1].kind = "submit"
    /\ call.status_url = << >>
    /\ call.attempt = 0

C11_Witness ==
  /\ call.op = "download_pdf"
  /\ call.pc = "ERROR"
  /\ call.translation_info = [ http |-> "ok", href |-> Str(<< >>) ]

\* C12: an invocation of download_pdf sends one submit request, and it has
\* sent it as soon as it is past the parsing of the drawing URL, whether it
\* is the caller's first invocation or a later one, so every invocation
\* makes the service create a job of its own; it sends at most one download
\* request; a status request is repeated only after a non-terminal answer
\* and at most max_attempts times; an invocation that has raised has ended;
\* every status request goes to the URL made from the href of the
\* invocation's own submit response.
C12_OneSubmitNoRetry ==
  call.op = "download_pdf" =>
    /\ CountReq("submit") <= 1
    /\ (call.ref.ok /\ call.pc # "CREATED") =>
         (CountReq("submit") = 1 /\ call.translation_info # NoInfo)
    /\ Cardinality(Downloads) <= 1
    /\ CountReq("status") = call.attempt
    /\ call.attempt <= DefaultMaxAttempts
    /\ call.nonterminal >= call.attempt - 1
    /\ call.outcome = "raise" => call.pc \in EndStates
    /\ \A i \in ReqAt("status") :
         LET href == call.translation_info.href
         IN  /\ call.translation_info.http = "ok"
             /\ NonEmptyText(href)
             /\ call.reqs[i].url =
                  IF HasPrefixAt(href.v, 1, L_http) THEN href.v ELSE base_url \o href.v

C12_Witness ==
  /\ call.op = "download_pdf"
  /\ calls = 2
  /\ CountReq("submit") = 1
  /\ CountReq("status") >= 2
  /\ call.translation_info.href = Str(HrefRel)

\* C19: when _download_file or _download_blob_element has returned, the
\* parent directory and the file exist and the file holds the bytes of the
\* response body, all of them, once each and in their order, however the
\* body was cut into chunks of zero, one or two bytes; while the stream is
\* read the file holds the bytes delivered so far.
C19_FileHoldsBody ==
  /\ call.pc = "DOWNLOADED" =>
       /\ CountReq("file") + CountReq("blob") = 1
       /\ fs.dir
       /\ fs.exists
       /\ Len(fs.data) = Len(call.body)
       /\ \A p \in 1..Len(call.body) : fs.data[p] = Byte(calls, p)
       /\ call.chunks <= MaxChunks
       /\ Len(call.body) <= 2 * call.chunks
  /\ call.pc = "STREAMING" => (fs.exists /\ fs.data = call.body)

C19_Witness ==
  /\ call.pc = "DOWNLOADED"
  /\ call.before = "no_directory"
  /\ call.chunks = 2
  /\ Len(fs.data) = 1

\* C20: a download to a path that holds a file replaces the content: from
\* the opening of the destination on the file holds bytes of this response
\* only, and after the download has returned it is the body of this
\* response alone, whatever an earlier download left there.
C20_DownloadReplacesContent ==
  call.pc \in { "STREAMING", "DOWNLOADED" } =>
    /\ \A p \in 1..Len(fs.data) : fs.data[p] \div 10 = calls
    /\ Len(fs.data) <= Len(call.body)
    /\ call.pc = "DOWNLOADED" => (fs.whole /\ fs.data = call.body)

C20_Witness ==
  /\ call.pc = "DOWNLOADED"
  /\ calls = 2
  /\ call.before = "downloaded_file"
  /\ Len(call.body) = 1
  /\ fs.data = << Byte(2, 1) >>

\* ------------------------------------------------- conversion: properties
Made(r, what) == \E i \in 1..Len(r.ops) : r.ops[i] = what

U_unavailable == "cascadio library not available"

\* C13: a get_part_model request that finds the artifact calls the
\* conversion routine not at all, makes no directory and no file, and
\* answers with the path of the artifact; a request that does not find it
\* and answers 200 has called the routine exactly once, the file exists
\* then, and the path it answers with is the same path a later request that
\* finds the file answers with; no request calls the routine twice.
C13_SecondRequestHitsCache ==
  \A w \in Workers :
    LET r == req[w]
    IN  /\ r.invoked <= 1
        /\ (r.op = "model" /\ r.seen_glb = "present") =>
              /\ r.invoked = 0
              /\ ~Made(r, "step_to_glb") /\ ~Made(r, "mkdir") /\ ~Made(r, "save")
              /\ r.path = RouteGlbPath
        /\ (r.op = "model" /\ r.seen_glb = "absent" /\ r.status = 200) =>
              /\ r.invoked = 1
              /\ disk.glb.state # "absent"
              /\ r.path = RouteGlbPath

C13_Witness ==
  \E w, v \in Workers :
    /\ req[w].op = "model" /\ req[w].status = 200 /\ req[w].seen_glb = "absent"
    /\ req[v].op = "model" /\ req[v].status = 200 /\ req[v].seen_glb = "present"
    /\ req[w].sent.state = "complete"
    /\ req[v].sent = req[w].sent
    /\ req[v].path = req[w].path
    /\ conversions = 1
    /\ nreq = 2

\* C14: when cascadio.step_to_glb has returned without raising and the
\* output file does not exist at the check that follows, the converter
\* returns success false, the error "GLB file was not created" and no path,
\* and get_part_model answers 500 and sends nothing; the converter returns
\* success only when that check found the file.
C14_MissingOutputIsFailure ==
  \A w \in Workers :
    LET r == req[w]
    IN  /\ (r.returned /\ r.verify = "absent") =>
              /\ r.result = Failure("GLB file was not created")
              /\ r.status # 200
              /\ r.sent = NoSent
              /\ r.op = "model" => (r.status = 500 /\ r.error = "Model conversion failed")
        /\ r.result.success => (r.returned /\ r.verify = "present")
        /\ r.result.success <=> r.result.gltf_path # << >>

C14_Witness ==
  \E w \in Workers :
    /\ req[w].op = "model"
    /\ req[w].returned
    /\ req[w].verify = "absent"
    /\ req[w].status = 500

\* C15: a get_part_model request that finds neither the artifact nor the
\* source answers 404 "Original file not found" without having called the
\* converter: the routine is not invoked and nothing is made; inside
\* convert_step_to_gltf a source that is found missing gives the result
\* "STEP file not found" before the directory is made or the routine called.
C15_MissingSourceNotConverted ==
  \A w \in Workers :
    LET r == req[w]
    IN  /\ ( /\ r.op = "model"
             /\ r.seen_glb = "absent"
             /\ \/ r.seen_step = "absent"
                \/ (r.pc = "END" /\ disk.step = 0) ) =>
              /\ r.pc = "END"
              /\ r.status = 404
              /\ r.error = "Original file not found"
              /\ r.invoked = 0
              /\ r.ops = << "glb_exists", "step_exists" >>
              /\ r.result = NoResult
        /\ r.conv_step = "absent" =>
              /\ r.result = Failure("STEP file not found")
              /\ r.invoked = 0
              /\ ~Made(r, "mkdir") /\ ~Made(r, "step_to_glb")
              /\ r.pc = "END"
        /\ r.invoked = 0 => disk.glb.owner # w

C15_Witness ==
  \E w \in Workers :
    /\ req[w].op = "model"
    /\ req[w].seen_glb = "absent"
    /\ req[w].seen_step = "absent"
    /\ req[w].status = 404
    /\ conversions = 0
    /\ disk.glb.state = "absent"

\* C16 as stated: a request that fails with the conversion-unavailable
\* error has made no file-system operation before the import: no existence
\* check, no directory creation, no write.
C16_UnavailableBeforeAnyFileOp ==
  \A w \in Workers :
    req[w].result.error = U_unavailable => req[w].ops = << "import" >>

\* C16 amended: inside convert_step_to_gltf the import comes first: when
\* the dependency cannot be loaded, every call of the converter returns the
\* unavailable result with the import as the last operation of the request,
\* so the converter itself checks no file, makes no directory and calls no
\* routine; the operations before the import are those of the route that
\* called the converter (the two existence checks of get_part_model, the
\* mkdir and save of upload_part_file), and a direct call has none.
C16_ConverterFailsFast ==
  \A w \in Workers :
    LET r == req[w]
    IN  /\ (~cascadio /\ Made(r, "import")) =>
              /\ r.result = Failure(U_unavailable)
              /\ r.ops[Len(r.ops)] = "import"
              /\ r.invoked = 0
              /\ r.conv_step = "unset"
              /\ r.pc = "END"
              /\ r.op = "model" =>
                    (r.status = 500 /\ r.ops = << "glb_exists", "step_exists", "import" >>)
              /\ r.op = "upload" =>
                    (r.status = 201 /\ r.ops = << "mkdir", "save", "import" >>)
              /\ r.op = "convert" => r.ops = << "import" >>
        /\ r.result.error = U_unavailable => ~cascadio

C16_Witness ==
  \E w \in Workers :
    /\ req[w].op = "model"
    /\ req[w].result.error = U_unavailable
    /\ req[w].ops = << "glb_exists", "step_exists", "import" >>

\* the only requests made so far are two get_part_model requests, one per
\* worker, and both found the artifact missing
TwoCallersRace ==
  /\ nreq = 2
  /\ \A v \in Workers : req[v].op = "model" /\ req[v].seen_glb = "absent"

\* C17: when two get_part_model requests for the same missing artifact run
\* at the same time, then in every interleaving each of them that answers
\* 200 sends a complete artifact (an artifact left behind by a routine that
\* raised half way is not counted against the claim).
C17_RaceIsBenign ==
  TwoCallersRace =>
    \A w \in Workers :
      (req[w].status = 200 /\ req[w].sent.state # "broken") =>
        req[w].sent.state = "complete"

\* C18: a get_part_model request that finds the artifact looks at nothing
\* else: it does not check or read the source, does not load the
\* dependency, does not call the routine, and sends the file as it is,
\* whatever version of the source it was made from.
C18_PresenceIsTheKey ==
  \A w \in Workers :
    LET r == req[w]
    IN  (r.op = "model" /\ r.seen_glb = "present") =>
          /\ r.ops \in { << "glb_exists" >>, << "glb_exists", "send_file" >> }
          /\ r.seen_step = "unset"
          /\ r.conv_step = "unset"
          /\ r.result = NoResult
          /\ r.invoked = 0
          /\ r.pc \in { "SEND", "END" }
          /\ r.pc = "END" =>
                /\ r.status = 200
                /\ r.sent.state # "none"
                /\ r.sent.ver <= disk.glb.ver

C18_Witness ==
  \E w \in Workers :
    /\ req[w].op = "model"
    /\ req[w].seen_glb = "present"
    /\ req[w].status = 200
    /\ req[w].sent.state = "complete"
    /\ req[w].sent.ver = disk.glb.ver
    /\ req[w].sent.ver < disk.step
    /\ conversions = 0

\* ------------------------------------------------- pipeline: failed downloads
\* the invocation ended because the response stream broke
StreamBroke == call.pc = "ERROR" /\ call.error.msg = "stream"

\* C21: when the stream of a download breaks after the destination was
\* opened, the invocation ends by raising and returns no path, and the
\* destination keeps the file with exactly the chunks written before the
\* break: nothing deletes it or restores what the path held before.
C21_BrokenStreamLeavesPartialFile ==
  StreamBroke =>
    /\ call.outcome = "raise"
    /\ call.error.type = "ConnectionError"
    /\ fs.dir
    /\ fs.exists
    /\ fs.data = call.body
    /\ ~fs.whole
    /\ \A p \in 1..Len(fs.data) : fs.data[p] = Byte(calls, p)

C21_Witness ==
  /\ StreamBroke
  /\ call.chunks >= 1
  /\ Len(fs.data) = 1
  /\ call.before = "downloaded_file"

\* ------------------------------------------------- pipeline: error types
\* the failure causes of the pipeline
Causes == { "malformed_reference", "submission_failure", "terminal_failure",
            "polling_timeout", "no_result", "download_failure" }

\* the cause an invocation failed from, by the statement that raised
CauseOf(c) ==
  CASE c.error.msg = "bad drawing url" -> "malformed_reference"
    [] c.error.msg \in { "submit", "missing status link" } -> "submission_failure"
    [] c.error.msg = "ended with state" -> "terminal_failure"
    [] c.error.msg = "polling exceeded maximum attempts" -> "polling_timeout"
    [] c.error.msg = "finished without downloadable results" -> "no_result"
    [] c.error.msg \in { "download", "mkdir", "open", "stream" } -> "download_failure"
    [] OTHER -> "other"

\* the exception classes the statements of one cause raise
ErrorTypes(cause) ==
  CASE cause = "malformed_reference" -> { "ValueError" }
    [] cause = "submission_failure" -> { "HTTPError", "ConnectionError", "RuntimeError" }
    [] cause = "terminal_failure" -> { "RuntimeError" }
    [] cause = "polling_timeout" -> { "TimeoutError" }
    [] cause = "no_result" -> { "RuntimeError" }
    [] cause = "download_failure" -> { "HTTPError", "ConnectionError", "OSError" }
    [] OTHER -> { }

\* C22: the error type of a failed invocation tells its cause: the type
\* raised is one the cause raises and no other of the six causes raises it.
C22_TypeTellsCause ==
  (call.outcome = "raise" /\ CauseOf(call) \in Causes) =>
    /\ call.error.type \in ErrorTypes(CauseOf(call))
    /\ \A k \in Causes : call.error.type \in ErrorTypes(k) => k = CauseOf(call)

\* what does hold: the type is one of those the cause raises, and only
\* the malformed reference and the polling timeout have a type of their own
C22_TypesAsRaised ==
  (call.outcome = "raise" /\ CauseOf(call) \in Causes) =>
    /\ call.error.type \in ErrorTypes(CauseOf(call))
    /\ call.error.type = "ValueError" <=> CauseOf(call) = "malformed_reference"
    /\ call.error.type = "TimeoutError" <=> CauseOf(call) = "polling_timeout"

\* ------------------------------------------------- pipeline: request URLs
L_https == << "h","t","t","p","s",":","/","/" >>

C24_DownloadUrls ==
  \A i \in 1..Len(call.reqs) :
    LET r == call.reqs[i]
    IN  /\ r.kind = "blob" =>
             /\ call.choice.variant = "element"
             /\ call.choice.id \in { R1, R2 }
             /\ call.choice.id # E1
             /\ r.url = Host \o << "/","a","p","i","/","v","6","/","b","l","o","b",
                                    "e","l","e","m","e","n","t","s","/","d","/" >>
                             \o D1 \o << "/","w","/" >> \o W1 \o << "/","e","/" >>
                             \o call.choice.id
        /\ r.kind = "file" =>
             /\ call.choice.variant = "external"
             /\ call.choice.id \in { B1, B2 }
             /\ r.url = Host \o << "/","a","p","i","/","e","x","t","e","r","n","a","l",
                                    "d","a","t","a","/" >> \o call.choice.id

C24_Witness ==
  /\ call.pc = "DOWNLOADED"
  /\ call.choice = [ variant |-> "element", id |-> R2 ]
  /\ call.reqs[Len(call.reqs)].kind = "blob"
  /\ call.ref.element = E1

\* ------------------------------------------------- pipeline: authorization
\* C27: every outbound request (submit, status, download) carries the
\* Authorization header the constructor computed, "Basic " and the base64
\* text of access_key:secret_key; no request goes without it, and no
\* operation changes the header the instance holds.
C27_SameAuthorization ==
  /\ headers.Authorization =
       << "B","a","s","i","c"," ","Y","W","s","6","c","2","s","=" >>
  /\ Len(call.hdrs) = Len(call.reqs)
  /\ \A i \in 1..Len(call.hdrs) :
       /\ call.hdrs[i].Authorization = headers.Authorization
       /\ call.reqs[i].kind \in { "submit", "status" } => call.hdrs[i] = headers

C27_Witness ==
  /\ call.pc = "DOWNLOADED"
  /\ calls = 2
  /\ Len(call.reqs) = 4
  /\ call.reqs[4].kind = "file"
  /\ call.hdrs[4].Accept = "application/pdf"
  /\ call.hdrs[4].Authorization = call.hdrs[1].Authorization
  /\ Len(call.hdrs[1].Authorization) = 14

\* ==================================================== parse_drawing_url
\* the method is the same text in OnshapeDrawingClient and in
\* OnshapeDrawingDownloader; it reads its argument only.  A caller holds a
\* drawing_url and has not called yet.
InitParse ==
  /\ FlowIdle
  /\ PipelineIdle
  /\ CacheIdle
  /\ AuthIdle
  /\ parsing \in { [ NoParse EXCEPT !.parts = p, !.drawing_url = BuildUrl(p) ] :
                     p \in ParseParts }

\* parse_drawing_url(drawing_url): the triple, or ValueError
CallParse ==
  /\ parsing.n = 0
  /\ LET r == parse_drawing_url(parsing.drawing_url)
     IN  parsing' = [ parsing EXCEPT !.n = 1, !.result = r,
                                     !.outcome = IF r.ok THEN "return" ELSE "raise",
                                     !.error = IF r.ok THEN "none" ELSE "ValueError" ]
  /\ UNCHANGED outside_parse

NextParse == CallParse

SpecParse == InitParse /\ [][NextParse]_vars

\* ------------------------------------------- parse_drawing_url: properties
\* a non-empty text of letters and digits
AllAlnum(id) == Len(id) >= 1 /\ \A i \in 1..Len(id) : IsAlnum(id[i])

\* C25: for a URL that holds /documents/{doc}/w/{workspace}/e/{element}
\* with three ids of letters and digits, whatever precedes and follows,
\* parse_drawing_url returns exactly these three ids; for a URL in which a
\* segment or its id is missing, or the segments are out of place, it
\* raises ValueError; what it returns is never a triple with an empty part.
C25_ParseExactOrFail ==
  parsing.n > 0 =>
    LET p == parsing.parts
        r == parsing.result
    IN  /\ (p.shape = "full" /\ AllAlnum(p.doc) /\ AllAlnum(p.ws) /\ AllAlnum(p.el)) =>
             /\ parsing.outcome = "return"
             /\ r = [ ok |-> TRUE, document |-> p.doc, workspace |-> p.ws,
                      element |-> p.el ]
        /\ (p.shape # "full" \/ p.doc = << >> \/ p.ws = << >> \/ p.el = << >>) =>
             /\ parsing.outcome = "raise"
             /\ parsing.error = "ValueError"
        /\ parsing.outcome = "return" =>
             (r.ok /\ AllAlnum(r.document) /\ AllAlnum(r.workspace) /\ AllAlnum(r.element))
        /\ parsing.outcome = "raise" => r = NoMatch

C25_Witness ==
  /\ parsing.n = 1
  /\ parsing.parts.pre = Host \o L_documents \o << "z","z","/","w" >>
  /\ parsing.parts.post = << "?","a","=","1" >>
  /\ parsing.outcome = "return"
  /\ parsing.result.document = << "A","b","9" >>
  /\ parsing.result.workspace = << "0" >>
  /\ parsing.result.element = << "Z","z" >>

\* ------------------------------------------------- conversion: artifact path
\* C26: the path of the artifact is the same wherever it is computed: the
\* path convert_step_to_gltf reports, called by upload_part_file, by
\* get_part_model or by another caller, and the path get_part_model looks
\* up and sends are all {upload folder}/{part id}/{stem of the stored file
\* name}.glb, here u/1/p.glb for the stored name p.step.
C26_OneArtifactPath ==
  \A w \in Workers :
    /\ req[w].result.success =>
         req[w].result.gltf_path = << "u","/","1","/","p",".","g","l","b" >>
    /\ req[w].pc = "SEND" \/ req[w].status = 200 =>
         req[w].path = << "u","/","1","/","p",".","g","l","b" >>
    /\ req[w].path \in { << >>, << "u","/","1","/","p",".","g","l","b" >> }

C26_Witness ==
  \E w, v \in Workers :
    /\ req[w].op = "upload"
    /\ req[w].result.success
    /\ req[v].op = "model"
    /\ req[v].seen_glb = "present"
    /\ req[v].status = 200
    /\ req[v].path = req[w].result.gltf_path
    /\ conversions = 1

\* ================================================= GET /api/parts/auth/check
\* a server: threads of one process share the dict, processes have one each
InitAuth ==
  /\ FlowIdle
  /\ PipelineIdle
  /\ CacheIdle
  /\ ParseIdle
  /\ server \in Servers
  /\ timestamps = [ p \in Workers |-> [ ip \in IPs |-> Absent ] ]
  /\ now = 0
  /\ areq = [ w \in Workers |-> IdleAuth ]
  /\ answers = << >>
  /\ kreq = NoKeyReq
  /\ parts_db = [ reads |-> 0, writes |-> 0 ]

\* number of /auth/check requests taken so far
Started == Len(answers) + Cardinality({ w \in Workers : areq[w].pc # "IDLE" })

\* one answer appended to the log of answers
Answered(w, ip, t, status) ==
  Append(answers, [ w |-> w, ip |-> ip, time |-> t, status |-> status ])

\* a request arrives: require_secret_key, then the first two statements of
\* check_auth, client_ip = request.remote_addr and current_time = time.time()
AuthRequest(w) ==
  /\ areq[w].pc = "IDLE"
  /\ Started < MaxAuthReqs
  /\ \E ip \in IPs, key \in { Str(SecretKey), Str(WrongKey) } :
       LET r == [ method |-> "GET", header |-> key, query |-> Missing,
                  is_json |-> FALSE, body |-> NoBody ]
           d == require_secret_key(r)
       IN  IF d.run
           THEN /\ areq' = [ areq EXCEPT ![w] = [ pc |-> "CHECK", client_ip |-> ip,
                                                  current_time |-> now ] ]
                /\ answers' = answers
           ELSE /\ answers' = Answered(w, ip, now, d.status)
                /\ areq' = areq
  /\ UNCHANGED << server, timestamps, now, kreq, parts_db >>
  /\ UNCHANGED outside_auth

\* check_auth: if client_ip in _auth_check_timestamps, and the 429 answer
AuthCheck(w) ==
  /\ areq[w].pc = "CHECK"
  /\ LET m  == timestamps[Proc(w)]
         ip == areq[w].client_ip
     IN  IF ip \in Tracked(m) /\ areq[w].current_time - m[ip] < MinDelay
         THEN /\ answers' = Answered(w, ip, areq[w].current_time, 429)
              /\ areq' = [ areq EXCEPT ![w] = IdleAuth ]
         ELSE /\ areq' = [ areq EXCEPT ![w].pc = "UPDATE" ]
              /\ answers' = answers
  /\ UNCHANGED << server, timestamps, now, kreq, parts_db >>
  /\ UNCHANGED outside_auth

\* variant of AuthUpdate: entries older than the delay are dropped
AuthUpdate_Prunes(w) ==
  /\ areq[w].pc = "UPDATE"
  /\ timestamps' = [ timestamps EXCEPT ![Proc(w)] =
                       [ ip \in IPs |->
                           IF ip = areq[w].client_ip THEN areq[w].current_time
                           ELSE IF @[ip] # Absent /\ areq[w].current_time - @[ip] >= MinDelay
                           THEN Absent
                           ELSE @[ip] ] ]
  /\ answers' = Answered(w, areq[w].client_ip, areq[w].current_time, 200)
  /\ areq' = [ areq EXCEPT ![w] = IdleAuth ]
  /\ UNCHANGED << server, now, kreq, parts_db >>
  /\ UNCHANGED outside_auth

\* check_auth: _auth_check_timestamps[client_ip] = current_time, and the
\* "authenticated" answer
AuthUpdate(w) ==
  /\ areq[w].pc = "UPDATE"
  /\ timestamps' = [ timestamps EXCEPT ![Proc(w)][areq[w].client_ip] =
                                         areq[w].current_time ]
  /\ answers' = Answered(w, areq[w].client_ip, areq[w].current_time, 200)
  /\ areq' = [ areq EXCEPT ![w] = IdleAuth ]
  /\ UNCHANGED << server, now, kreq, parts_db >>
  /\ UNCHANGED outside_auth

\* a second passes
Tick ==
  /\ now < MaxTime
  /\ now' = now + 1
  /\ UNCHANGED << server, timestamps, areq, answers, kreq, parts_db >>
  /\ UNCHANGED outside_auth

NextAuth ==
  \/ \E w \in Workers :
       \/ AuthRequest(w)
       \/ AuthCheck(w)
       \/ AuthUpdate(w)
  \/ Tick

SpecAuth == InitAuth /\ [][NextAuth]_vars

\* ================================================= the protected part routes
InitKey ==
  /\ FlowIdle
  /\ PipelineIdle
  /\ CacheIdle
  /\ ParseIdle
  /\ AuthIdle

\* a request to a route wrapped in require_secret_key: the wrapper, and the
\* handler when the wrapper calls it
protected_route ==
  /\ kreq.n < MaxKeyReqs
  /\ \E rt \in KeyRoutes, h \in KeyVals, q \in KeyVals, j \in BOOLEAN, b \in Bodies :
       LET r == [ method |-> rt.method, header |-> h, query |-> q,
                  is_json |-> j, body |-> b ]
           d == require_secret_key(r)
       IN  /\ kreq' = [ n |-> kreq.n + 1, route |-> rt.name, request |-> r,
                        db_before |-> parts_db,
                        status |-> IF d.run THEN 200 ELSE d.status,
                        error |-> d.error, ran |-> d.run ]
           /\ parts_db' = IF d.run
                          THEN [ reads |-> parts_db.reads + rt.reads,
                                 writes |-> parts_db.writes + rt.writes ]
                          ELSE parts_db
  /\ UNCHANGED << server, timestamps, now, areq, answers >>
  /\ UNCHANGED outside_auth

NextKey == protected_route

SpecKey == InitKey /\ [][NextKey]_vars

\* ------------------------------------------------- authentication: properties
\* C28: two "authenticated" answers to one IP are for requests at least
\* two seconds apart, whichever worker handled them.
C28_MinDelayPerIp ==
  \A i, j \in 1..Len(answers) :
    ( /\ i < j
      /\ answers[i].status = 200
      /\ answers[j].status = 200
      /\ answers[i].ip = answers[j].ip ) =>
        \/ answers[j].time - answers[i].time >= MinDelay
        \/ answers[i].time - answers[j].time >= MinDelay

\* what does hold: requests handled one at a time by one worker of one
\* process keep the delay
C28_MinDelayOneAtATime ==
  ( /\ server = "threads"
    /\ areq[2].pc = "IDLE"
    /\ \A i \in 1..Len(answers) : answers[i].w = 1 ) =>
    \A i, j \in 1..Len(answers) :
      ( /\ i < j
        /\ answers[i].status = 200
        /\ answers[j].status = 200
        /\ answers[i].ip = answers[j].ip ) =>
          answers[j].time - answers[i].time >= MinDelay

\* C29: no entry of the tracking dict is ever removed: at any time the IPs
\* the dicts hold are all the IPs that have ever been given the
\* "authenticated" answer, however long ago.
C29_NeverPruned ==
  UNION { Tracked(timestamps[p]) : p \in Workers }
    = { answers[i].ip : i \in { k \in 1..Len(answers) : answers[k].status = 200 } }

C29_Witness ==
  /\ Tracked(timestamps[1]) = IPs
  /\ Len(answers) = 3
  /\ \A i \in 1..3 : answers[i].status = 200
  /\ answers[3].time - answers[1].time >= MinDelay
  /\ answers[1].ip = answers[3].ip

\* the key a request presents: the header, else the query parameter, else
\* for POST and PUT the api_key member of a JSON object body
PresentedKey(r) ==
  IF r.header.t = "str" /\ r.header.v # << >> THEN r.header
  ELSE IF r.query.t = "str" /\ r.query.v # << >> THEN r.query
  ELSE IF r.method \in { "POST", "PUT" } /\ r.is_json /\ r.body.t = "object"
  THEN r.body.api_key
  ELSE Missing

\* C30: the handler of a protected route runs exactly when the key the
\* request presents is the configured secret; every other request is
\* answered 401 and reads and changes no part record.
C30_HandlerOnlyWithSecret ==
  kreq.n > 0 =>
    /\ kreq.ran <=> PresentedKey(kreq.request) = Str(SecretKey)
    /\ kreq.ran => kreq.status = 200
    /\ ~kreq.ran => (kreq.status = 401 /\ parts_db = kreq.db_before)

C30_Witness ==
  /\ kreq.n = 2
  /\ kreq.route = "update_part"
  /\ kreq.request.header = Str(<< >>)
  /\ kreq.request.query = Missing
  /\ kreq.request.body = Object(Str(SecretKey))
  /\ kreq.ran
  /\ parts_db = [ reads |-> 1, writes |-> 1 ]

\* ------------------------------------------------- pipeline: the poller's end
\* a direct call of _poll_translation has ended
PollEnded == call.op = "poll" /\ call.pc \in EndStates

\* C32: a call of _poll_translation sends at most max_attempts status
\* requests and ends in exactly one of four ways: it returns the payload
\* that reports DONE, it raises the error that names FAILED or CANCELED,
\* it raises the polling-timeout error, or it raises the error of a failed
\* request; with max_attempts = 0 it sends nothing and raises the timeout.
C32_PollEndsInOneOfFour ==
  /\ call.op = "poll" => CountReq("status") <= call.max_attempts
  /\ PollEnded =>
       \/ /\ call.pc = "RETURNED"
          /\ call.outcome = "return"
          /\ LastIs(W_DONE)
       \/ /\ call.pc \in { "FAILED", "CANCELED" }
          /\ call.outcome = "raise"
          /\ call.error.type = "RuntimeError"
       \/ /\ call.pc = "TIMED_OUT"
          /\ call.outcome = "raise"
          /\ call.error.type = "TimeoutError"
          /\ CountReq("status") = call.max_attempts
       \/ /\ call.pc = "ERROR"
          /\ call.outcome = "raise"
          /\ call.error.type \in { "HTTPError", "ConnectionError" }
          /\ call.last.http # "ok"
  /\ (PollEnded /\ call.max_attempts = 0) =>
       (call.pc = "TIMED_OUT" /\ Len(call.reqs) = 0)

\* what does hold: the same of the poller of OnshapeDrawingClient
C32_ClientPollEndsInOneOfFour == impl = "client" => C32_PollEndsInOneOfFour

\* C33: the two classes do the same with every response: the step the
\* poller of the instance takes on the status payload it holds is the step
\* the poller of the other class takes on it, and the result variant picked
\* from the final status is the one the other class picks.
C33_ClassesAgree ==
  /\ call.status_payload.http # "none" =>
       \A i \in Impls :
         /\ PollStep(i, call.status_payload) = PollStep(impl, call.status_payload)
         /\ PollState(i, call.status_payload) = PollState(impl, call.status_payload)
  /\ call.final_status.http # "none" =>
       \A i \in Impls : Resolve(i, call.final_status) = Resolve(impl, call.final_status)

\* what does hold: the classes pick the same result variant
C33_ClassesAgreeOnResult ==
  call.final_status.http # "none" =>
    \A i \in Impls : Resolve(i, call.final_status) = Resolve(impl, call.final_status)

\* C34: when the answer to a status request is not a success the poll ends
\* there with the error of the request: that request is the last one sent,
\* attempts of the budget may be left, the only sleeps are those after the
\* earlier responses, and no download request is sent.
C34_StatusErrorEndsPolling ==
  call.last.http \in { "error", "neterr" } =>
    /\ call.pc = "ERROR"
    /\ call.outcome = "raise"
    /\ call.error.type = RequestError(call.last.http)
    /\ call.error.type \in { "HTTPError", "ConnectionError" }
    /\ call.reqs[Len(call.reqs)].kind = "status"
    /\ CountReq("status") = call.attempt
    /\ call.sleeps = call.attempt - 1
    /\ call.nonterminal = call.attempt - 1
    /\ Downloads = {}
    /\ call.choice = NoChoice

C34_Witness ==
  /\ call.op = "download_pdf"
  /\ call.last.http = "error"
  /\ call.pc = "ERROR"
  /\ call.attempt = 2
  /\ call.attempt < call.max_attempts
  /\ call.sleeps = 1


\* C35: the poller sleeps exactly once after every non-terminal status
\* response, the one that used up the last attempt included: a poll that
\* timed out has slept max_attempts times; no sleep follows a response that
\* reports DONE, FAILED or CANCELED.
C35_OneSleepPerNonTerminal ==
  /\ call.sleeps = call.nonterminal - (IF call.pc = "SLEEPING" THEN 1 ELSE 0)
  /\ call.pc = "TIMED_OUT" => call.sleeps = call.max_attempts
  /\ (LastIs(W_DONE) \/ LastIs(W_FAILED) \/ LastIs(W_CANCELED)) =>
       /\ call.sleeps = call.attempt - 1
       /\ call.pc # "SLEEPING"

\* C35 for OnshapeDrawingClient alone
C35_ClientOneSleepPerNonTerminal == impl = "client" => C35_OneSleepPerNonTerminal


\* the download request of this step is answered with a failure
DownloadRefused ==
  /\ call.pc = "RESOLVED"
  /\ call'.pc = "ERROR"
  /\ call'.error.msg = "download"
  /\ call'.error.type \in { "HTTPError", "ConnectionError" }

\* C36: a download request that is answered with a non-success response fails
\* before the file system is touched: the destination's directory is not
\* created, the destination is neither created nor truncated, and an artifact
\* that was there keeps its content.
C36_RefusedDownloadLeavesFiles ==
  [][ DownloadRefused =>
        /\ fs' = fs
        /\ Len(call'.reqs) = Len(call.reqs) + 1
        /\ call'.reqs[Len(call'.reqs)].kind \in DownloadKinds ]_vars

C36_Witness ==
  /\ calls = 2
  /\ call.pc = "ERROR"
  /\ call.error.msg = "download"
  /\ call.error.type = "HTTPError"
  /\ fs.exists /\ fs.whole /\ Len(fs.data) >= 1


\* ----------------------------------------------- conversion: what it returns
\* the request w called convert_step_to_gltf and the call is over
ConvOver(w) ==
  /\ req[w].pc \in { "END", "SEND" }
  /\ \E i \in 1..Len(req[w].ops) : req[w].ops[i] = "import"

\* the request w called the conversion routine
RoutineCalled(w) == \E i \in 1..Len(req[w].ops) : req[w].ops[i] = "step_to_glb"

\* C37: convert_step_to_gltf never raises: every call that is over, one in
\* which the conversion routine raised included, has returned a record whose
\* success is true exactly when gltf_path is set and error is absent, and a
\* record with success true names a path at which a file exists.
C37_AlwaysAResultRecord ==
  \A w \in Workers :
    ConvOver(w) =>
      LET res == req[w].result
      IN  /\ res.error # "unset"
          /\ res.success <=> (res.gltf_path # << >> /\ res.error = "none")
          /\ ~res.success => (res.gltf_path = << >> /\ res.error # "none")
          /\ res.success =>
               /\ res.gltf_path = ConverterGlbPath(UploadDir, StemOf(FileName))
               /\ disk.glb.state # "absent"
               /\ req[w].verify = "present"

C37_Witness ==
  \E w \in Workers :
    /\ ConvOver(w)
    /\ RoutineCalled(w)
    /\ req[w].op = "convert"
    /\ req[w].result = Failure("Conversion failed")
    /\ disk.glb.state = "absent"


\* C38: a conversion that failed or was interrupted leaves no file at the
\* target path that a later request takes for a cache hit: whenever
\* get_part_model found the target present and served it, what it sent is the
\* complete output of a conversion that succeeded.
C38_CacheHitIsCompleteOutput ==
  \A w \in Workers :
    ( /\ req[w].op = "model"
      /\ req[w].seen_glb = "present"
      /\ req[w].sent # NoSent ) => req[w].sent.state = "complete"

\* C38 for requests that never overlap a conversion still running: the file
\* served is whole or the leftover of a routine that raised, never one that
\* is still being written
C38_SequentialHitNeverInWriting ==
  ( /\ req[2] = IdleReq
    /\ req[1].op = "model"
    /\ req[1].seen_glb = "present"
    /\ req[1].sent # NoSent ) => req[1].sent.state \in { "complete", "broken" }


\* a request served, as a cache hit, the leftover of a routine that raised,
\* while no other request was running
LeftoverServed ==
  /\ req[2] = IdleReq
  /\ req[1].op = "model"
  /\ req[1].seen_glb = "present"
  /\ req[1].status = 200
  /\ req[1].sent.state = "broken"

\* C38 for one request after another: no cache hit serves a leftover
C38_SequentialHitIsComplete == ~LeftoverServed


\* C39: once upload_part_file has stored a source and answered 201, every
\* later get_part_model that succeeds serves an artifact converted from the
\* source uploaded last, also when an artifact of the same stem was there
\* before the upload and when the conversion at upload time failed.  Stated
\* for requests that run one after another.
C39_ServesLatestUpload ==
  ( /\ req[2] = IdleReq
    /\ req[1].op = "model"
    /\ req[1].status = 200
    /\ disk.step >= 2 ) => req[1].sent.ver = disk.step

\* C39 where the conversion at upload time wrote its output to the end: the
\* artifact served afterwards is the one of that upload
C39_ServesLatestConverted ==
  ( /\ req[2] = IdleReq
    /\ req[1].op = "model"
    /\ req[1].status = 200
    /\ disk.glb.ver = disk.step ) => req[1].sent.ver = disk.step


\* ========================================================= the part workflow
\* the parts table is empty
InitFlow ==
  /\ PipelineIdle
  /\ CacheIdle
  /\ ParseIdle
  /\ AuthIdle
  /\ part = NoPart
  /\ flow = NoFlow

CanFlow == flow.n < MaxFlowOps

\* the log entry of a request that found the row part and left the row p
Logged(op, code, p) ==
  [ n |-> flow.n + 1, op |-> op, code |-> code,
    from |-> part.category, to |-> p.category, type |-> part.type,
    prev_op |-> flow.op, prev_code |-> flow.code, prev_from |-> flow.from ]

\* Part.query.get_or_404 inside the handler's try: the NotFound it raises for
\* a missing row is caught by  except Exception,  the answer is 500
NotFound(op) ==
  /\ ~part.exists
  /\ part' = part
  /\ flow' = Logged(op, 500, part)

\* the request bodies of create_part
CreateForms == { "no_data", "no_material", "no_subsystem", "bad_amount", "part" }

\* create_part: the checks of the body, the defaults of status and category,
\* Part(), update_from_dict, commit.  The row followed is the first one made.
create_part ==
  /\ CanFlow
  /\ ~part.exists
  /\ \E form \in CreateForms, c \in CategoryArgs \cup { NotGiven, None, "" },
        t \in TypeArgs \cup { NotGiven } :
       IF form # "part"
       THEN /\ part' = part
            /\ flow' = Logged("create_part", 400, part)
       ELSE LET p == [ exists |-> TRUE,
                       category |-> IF TruthyText(c) THEN c ELSE "review",
                       type |-> IF t = NotGiven THEN None ELSE t,
                       status |-> "Pending",
                       assigned |-> None ]
            IN  /\ part' = p
                /\ flow' = Logged("create_part", 201, p)
  /\ UNCHANGED outside_flow

\* update_part: update_from_dict stores category and type as the body gives
\* them
update_part ==
  /\ CanFlow
  /\ \/ NotFound("update_part")
     \/ /\ part.exists
        /\ \E c \in CategoryArgs \cup { NotGiven }, t \in TypeArgs \cup { NotGiven } :
             LET p == [ part EXCEPT
                          !.category = IF c = NotGiven THEN @ ELSE c,
                          !.type = IF t = NotGiven THEN @ ELSE t ]
             IN  /\ part' = p
                 /\ flow' = Logged("update_part", 200, p)
  /\ UNCHANGED outside_flow

\* the category approve_part and revert_part choose for a type
TypeCategory(t) == IF t = "cnc" THEN "cnc" ELSE "hand"

\* approve_part
approve_part ==
  /\ CanFlow
  /\ \/ NotFound("approve_part")
     \/ /\ part.exists
        /\ LET p == [ part EXCEPT !.status = "Reviewed",
                                  !.category = IF part.type = "cnc" THEN "cnc"
                                               ELSE IF part.type = "hand" THEN "hand"
                                               ELSE "hand" ]
           IN  /\ part' = p
               /\ flow' = Logged("approve_part", 200, p)
  /\ UNCHANGED outside_flow

\* assign_part: the body must name the user
assign_part ==
  /\ CanFlow
  /\ \/ NotFound("assign_part")
     \/ /\ part.exists
        /\ \E named \in BOOLEAN :
             IF ~named
             THEN /\ part' = part
                  /\ flow' = Logged("assign_part", 400, part)
             ELSE LET p == [ part EXCEPT !.assigned = "user",
                                         !.status = STATUS_IN_PROGRESS ]
                  IN  /\ part' = p
                      /\ flow' = Logged("assign_part", 200, p)
  /\ UNCHANGED outside_flow

\* unclaim_part
unclaim_part ==
  /\ CanFlow
  /\ \/ NotFound("unclaim_part")
     \/ /\ part.exists
        /\ LET p == [ part EXCEPT !.assigned = None,
                                  !.status = IF part.status = STATUS_IN_PROGRESS
                                             THEN "Already Started" ELSE "Pending" ]
           IN  /\ part' = p
               /\ flow' = Logged("unclaim_part", 200, p)
  /\ UNCHANGED outside_flow

\* complete_part
complete_part ==
  /\ CanFlow
  /\ \/ NotFound("complete_part")
     \/ /\ part.exists
        /\ LET p == [ part EXCEPT !.status = "Completed", !.category = "completed" ]
           IN  /\ part' = p
               /\ flow' = Logged("complete_part", 200, p)
  /\ UNCHANGED outside_flow

\* revert_part
revert_part ==
  /\ CanFlow
  /\ \/ NotFound("revert_part")
     \/ /\ part.exists
        /\ IF part.category # "completed"
           THEN /\ part' = part
                /\ flow' = Logged("revert_part", 400, part)
           ELSE LET p == [ part EXCEPT
                             !.category = IF part.type = "cnc" THEN "cnc" ELSE "hand",
                             !.status = STATUS_IN_PROGRESS ]
                IN  /\ part' = p
                    /\ flow' = Logged("revert_part", 200, p)
  /\ UNCHANGED outside_flow

NextFlow ==
  \/ create_part
  \/ update_part
  \/ approve_part
  \/ assign_part
  \/ unclaim_part
  \/ complete_part
  \/ revert_part

SpecFlow == InitFlow /\ [][NextFlow]_vars

\* ------------------------------------------------------ workflow: properties
\* the last request was a revert_part that reverted the part, and the request
\* before it a complete_part
RevertedAfterComplete ==
  /\ flow.op = "revert_part"
  /\ flow.code = 200
  /\ flow.prev_op = "complete_part"
  /\ flow.prev_code = 200

\* C31: revert_part puts a completed part back in its previous category:
\* when complete_part moved the part from category c to "completed", the
\* revert_part that follows leaves it in category c.
C31_RevertRestoresCategory ==
  RevertedAfterComplete => part.category = flow.prev_from

\* C31 for a part that was completed from the category of its type
C31_RevertRestoresTypeCategory ==
  ( /\ RevertedAfterComplete
    /\ flow.prev_from \in { "cnc", "hand" }
    /\ flow.prev_from = TypeCategory(flow.type) ) => part.category = flow.prev_from

\* the last request was one of the three workflow routes and it changed the
\* category of the part
CategoryChanged ==
  /\ flow.op \in { "approve_part", "complete_part", "revert_part" }
  /\ flow.code = 200
  /\ flow.to # flow.from

\* C40: every change of category that approve_part, complete_part or
\* revert_part makes, whatever category and type the part had, is a
\* transition validate_category_transition accepts for the category before,
\* the category after and the type of the part.
C40_ChangesAreValidTransitions ==
  CategoryChanged =>
    validate_category_transition(flow.from, flow.to, flow.type) = "valid"

\* a category and a type as the workflow routes themselves leave them
WorkflowState(c, t) ==
  /\ t \in { None, "", "cnc", "hand" }
  /\ c \in Categories
  /\ c \in { "cnc", "hand" } => c = TypeCategory(t)

\* C40 for parts whose type is cnc, hand or unset and whose category is one
\* the workflow routes gave them
C40_WorkflowStatesValid ==
  ( CategoryChanged /\ WorkflowState(flow.from, flow.type) ) =>
    validate_category_transition(flow.from, flow.to, flow.type) = "valid"

====
